---- MODULE Spec2Model ----
(***************************************************************************)
(* The symbol index of the LLVM IR language support: the two-pass scanner  *)
(* (parseDocument), the position resolver (getSymbolAtPosition), the       *)
(* resolution chain (findDefinition / resolveSymbol), the providers built  *)
(* on them and the per-document cache (documentCache).                     *)
(*                                                                         *)
(* A line of text is a sequence of tokens.  A token is a maximal piece of  *)
(* the line that the scanner's regular expressions treat as a unit:        *)
(*   s  the sigil ("@", "%", "!", "#", "$") or "" when there is none,      *)
(*   b  the class of the body, which decides the alternatives of the       *)
(*      identifier grammar that accept it:                                 *)
(*        "mid"  [a-zA-Z_][a-zA-Z0-9_]*            (also an "id")          *)
(*        "id"   [-a-zA-Z$._][-a-zA-Z$._0-9]* with one of - $ . in it      *)
(*        "num"  [0-9]+                                                    *)
(*        "str"  "[^"]+"  (the text includes both quotes)                  *)
(*        "o"    other bare text (1.0, ...), accepted by no alternative    *)
(*        "ws"   white space,  "p"  one punctuation character              *)
(*   t  the text of the body.                                              *)
(* Columns are 0-based character offsets, computed from the token widths;  *)
(* line numbers are 0-based as in the source.                              *)
(***************************************************************************)
EXTENDS Integers, Sequences, FiniteSets, TLC

VARIABLES docs, documentCache, last

vars == <<docs, documentCache, last>>

-----------------------------------------------------------------------------
(* Tokens *)

Tok(s, b, t) == [s |-> s, b |-> b, t |-> t]
Ws(t) == Tok("", "ws", t)
P(t) == Tok("", "p", t)
Kw(t) == Tok("", "mid", t)

SP == Ws(" ")
IND == Ws("  ")

Width(tok) == Len(tok.s) + Len(tok.t)

\* A symbol name is the sigil and the body text; its string is s \o t.
Nm(s, t) == [s |-> s, t |-> t]
TokName(tok) == Nm(tok.s, tok.t)
NameLen(name) == Len(name.s) + Len(name.t)

IsWs(tok) == tok.b = "ws"
IsP(tok, c) == tok.s = "" /\ tok.b = "p" /\ tok.t = c
IsWord(tok, w) == tok.s = "" /\ tok.b = "mid" /\ tok.t = w

\* [-a-zA-Z$._][-a-zA-Z$._0-9]*
IdentBody(tok) == tok.b \in {"id", "mid"}
\* [-a-zA-Z$._][-a-zA-Z$._0-9]*|"[^"]+"|[0-9]+
AnyBody(tok) == tok.b \in {"id", "mid", "str", "num"}
\* [-a-zA-Z$._][-a-zA-Z$._0-9]*|"[^"]+"
NamedBody(tok) == tok.b \in {"id", "mid", "str"}

\* The column at which token i of the line starts (0-based); i may be Len+1.
RECURSIVE ColOf(_, _)
ColOf(line, i) == IF i <= 1 THEN 0 ELSE ColOf(line, i - 1) + Width(line[i - 1])

LineLength(line) == ColOf(line, Len(line) + 1)

\* The first index >= i whose token is not white space (Len+1 when none).
RECURSIVE SkipWs(_, _)
SkipWs(line, i) ==
    IF i > Len(line) THEN Len(line) + 1
    ELSE IF IsWs(line[i]) THEN SkipWs(line, i + 1) ELSE i

\* trimmedLine === '' || trimmedLine.startsWith(';')
IsBlankOrComment(line) ==
    LET j == SkipWs(line, 1)
    IN  j > Len(line) \/ IsP(line[j], ";")

-----------------------------------------------------------------------------
(* Symbol kinds (the enum SymbolKind; a key renders the kind as its number) *)

LocalValue == "LocalValue"
GlobalValue == "GlobalValue"
Label == "Label"
NamedType == "NamedType"
Metadata == "Metadata"
AttributeGroup == "AttributeGroup"
Function == "Function"
Comdat == "Comdat"

\* "no function": null / undefined in the source
NoFn == Nm("", "")
\* "no definition", "no symbol": undefined / null in the source
None == [none |-> TRUE]

\* getSymbolKey: `${kind}:${functionName}:${name}` or `${kind}:${name}`.  The
\* rendering is injective (a function name starts with "@", a quoted body
\* cannot hold a quote and an unquoted one cannot hold ":"), so the key is
\* kept as the triple, with NoFn for the unqualified form.
\* A variant that leaves the function out of every key.
getSymbolKeyUnscoped(kind, name, functionName) == <<kind, NoFn, name>>

getSymbolKey(kind, name, functionName) ==
    IF functionName # NoFn /\ kind \in {LocalValue, Label}
    THEN <<kind, functionName, name>>
    ELSE <<kind, NoFn, name>>

\* A Map in insertion order: a sequence of <<key, value>>; set() on a key
\* that is present replaces the value in place.
MapHas(m, k) == \E i \in 1..Len(m) : m[i][1] = k
MapGet(m, k) ==
    IF MapHas(m, k) THEN m[CHOOSE i \in 1..Len(m) : m[i][1] = k][2] ELSE None
\* A variant in which the first registration of a key stays.
MapSetFirst(m, k, v) == IF MapHas(m, k) THEN m ELSE Append(m, <<k, v>>)

MapSet(m, k, v) ==
    IF MapHas(m, k)
    THEN [i \in 1..Len(m) |-> IF m[i][1] = k THEN <<k, v>> ELSE m[i]]
    ELSE Append(m, <<k, v>>)

\* new vscode.Range(startLine, startCol, endLine, endCol): the constructor
\* swaps the two positions when the start is after the end
Range(sl, sc, el, ec) ==
    IF el < sl \/ (el = sl /\ ec < sc)
    THEN [sl |-> el, sc |-> ec, el |-> sl, ec |-> sc]
    ELSE [sl |-> sl, sc |-> sc, el |-> el, ec |-> ec]

-----------------------------------------------------------------------------
(* parseDocument, first pass: function boundaries *)

\* /^\s*<kw>\s+.*?(@ident|@"str"|@num)\s*\(/ : the index of the name token
\* (the leftmost that the parenthesis follows), or 0 when there is no match.
\* the leftmost match: the least index of a set of token indexes, 0 for none
First(S) == IF S = {} THEN 0 ELSE CHOOSE i \in S : \A j \in S : i <= j

HeaderNameIdx(line, kw) ==
    LET j == SkipWs(line, 1)
        ok(k) == /\ line[k].s = "@" /\ AnyBody(line[k])
                 /\ SkipWs(line, k + 1) <= Len(line)
                 /\ IsP(line[SkipWs(line, k + 1)], "(")
    IN  IF j + 1 <= Len(line) /\ IsWord(line[j], kw) /\ IsWs(line[j + 1])
        THEN First({k \in (j + 2)..Len(line) : ok(k)})
        ELSE 0

\* for (const char of line) { if '{' braceDepth++; else if '}' braceDepth--; }
RECURSIVE BraceDelta(_, _)
BraceDelta(line, i) ==
    IF i > Len(line) THEN 0
    ELSE (IF IsP(line[i], "{") THEN 1 ELSE IF IsP(line[i], "}") THEN -1 ELSE 0)
         + BraceDelta(line, i + 1)

\* if (funcMatch && currentFunction === null) { ... }: h is the index of the
\* header's name token, 0 when the line is no header
OpenScope(st, line, lineNum, h) ==
    IF h # 0 /\ st.currentFunction = NoFn
    THEN [st EXCEPT !.currentFunction = Nm("@", line[h].t),
                    !.functionStartLine = lineNum,
                    !.braceDepth = 0]
    ELSE st

\* A variant that ends the scope one line further down.
CloseScopeNextLine(st, lineNum) ==
    IF st.braceDepth = 0 /\ st.functionStartLine >= 0
    THEN [currentFunction |-> NoFn, functionStartLine |-> -1,
          braceDepth |-> st.braceDepth,
          functionScopes |-> Append(st.functionScopes,
              [name |-> st.currentFunction, startLine |-> st.functionStartLine,
               endLine |-> lineNum + 1])]
    ELSE st

\* A variant that records the scope and leaves the function open.
CloseScopeKeepOpen(st, lineNum) ==
    IF st.braceDepth = 0 /\ st.functionStartLine >= 0
    THEN [st EXCEPT !.functionScopes = Append(st.functionScopes,
              [name |-> st.currentFunction, startLine |-> st.functionStartLine,
               endLine |-> lineNum])]
    ELSE st

\* if (braceDepth === 0 && functionStartLine >= 0) { functionScopes.push... }
CloseScope(st, lineNum) ==
    IF st.braceDepth = 0 /\ st.functionStartLine >= 0
    THEN [currentFunction |-> NoFn, functionStartLine |-> -1,
          braceDepth |-> st.braceDepth,
          functionScopes |-> Append(st.functionScopes,
              [name |-> st.currentFunction, startLine |-> st.functionStartLine,
               endLine |-> lineNum])]
    ELSE st

\* if (currentFunction !== null) { count the braces; close the scope }
TrackBraces(st, line, lineNum) ==
    IF st.currentFunction = NoFn THEN st
    ELSE CloseScope([st EXCEPT !.braceDepth = @ + BraceDelta(line, 1)], lineNum)

\* A variant that skips a blank or comment line for the header test only
\* and counts its braces while a scope is open.
ScopeStepCounting(st, line, lineNum) ==
    IF IsBlankOrComment(line) THEN TrackBraces(st, line, lineNum)
    ELSE TrackBraces(OpenScope(st, line, lineNum, HeaderNameIdx(line, "define")),
                     line, lineNum)

\* One iteration of the first loop, on line number lineNum (0-based).
ScopeStep(st, line, lineNum) ==
    IF IsBlankOrComment(line) THEN st
    ELSE TrackBraces(OpenScope(st, line, lineNum, HeaderNameIdx(line, "define")),
                     line, lineNum)

\* The loop; the state after a line is computed before the next line is
\* taken.
RECURSIVE ScopeLoop(_, _, _)
ScopeLoop(st, lines, i) ==
    CASE st.braceDepth \in Int ->
        IF i > Len(lines) THEN st
        ELSE ScopeLoop(ScopeStep(st, lines[i], i - 1), lines, i + 1)

FirstPass(lines) ==
    ScopeLoop([currentFunction |-> NoFn, functionStartLine |-> -1,
               braceDepth |-> 0, functionScopes |-> <<>>], lines, 1).functionScopes

\* for (const scope of functionScopes) if (line within) return scope.name
\* (the second pass's scope lookup and getFunctionAtPosition)
getFunctionAtPosition(functionScopes, lineNum) ==
    LET hit(i) == lineNum >= functionScopes[i].startLine
                  /\ lineNum <= functionScopes[i].endLine
    IN  IF \E i \in 1..Len(functionScopes) : hit(i)
        THEN functionScopes[CHOOSE i \in 1..Len(functionScopes) :
                 hit(i) /\ \A j \in 1..(i - 1) : ~hit(j)].name
        ELSE NoFn

-----------------------------------------------------------------------------
(* parseDocument, second pass: definitions *)

\* line.indexOf(name): the column of the first occurrence of the name in the
\* line.  Tokens are maximal and no line of the model holds a token that
\* properly contains a name defined on that line, so the first occurrence is
\* the first token that is the name.
indexOf(line, name) ==
    IF \E i \in 1..Len(line) : TokName(line[i]) = name
    THEN ColOf(line, First({i \in 1..Len(line) : TokName(line[i]) = name}))
    ELSE -1

\* fullLine.indexOf(paramsStr): the first place where the tokens of sub occur
\* in the line, as a token index (the empty string occurs at column 0).
SeqIndexOf(line, sub) ==
    LET at(i) == i + Len(sub) - 1 <= Len(line)
                 /\ \A k \in 1..Len(sub) : line[i + k - 1] = sub[k]
    IN  IF sub = <<>> THEN 1 ELSE First({i \in 1..Len(line) : at(i)})

\* the trimmed source line lineNum, or a synthesized description
Detail(form, lineNum) == <<form, lineNum>>

\* A SymbolDefinition; functionName and functionRange are NoFn / None when
\* the source leaves them out.
Def(name, kind, range, selectionRange, detail, functionName, functionRange) ==
    [name |-> name, kind |-> kind, range |-> range,
     selectionRange |-> selectionRange, detail |-> detail,
     functionName |-> functionName, functionRange |-> functionRange]

\* the usual one-line definition of the name token at index i
LineDef(line, lineNum, name, kind, detail, functionName) ==
    LET startCol == indexOf(line, name)
    IN  Def(name, kind, Range(lineNum, 0, lineNum, LineLength(line)),
            Range(lineNum, startCol, lineNum, startCol + NameLen(name)),
            detail, functionName, None)

\* /^\s*(<sigil>body)\s*=/ : the index of the name token or 0
AssignIdx(line, sigil, bodies) ==
    LET j == SkipWs(line, 1)
    IN  IF /\ j <= Len(line)
           /\ line[j].s = sigil /\ line[j].b \in bodies
           /\ LET k == SkipWs(line, j + 1)
              IN  k <= Len(line) /\ IsP(line[k], "=")
        THEN j ELSE 0

\* /^\s*(name)\s*=\s*<word>\b/
AssignWordIdx(line, sigil, bodies, word) ==
    LET j == AssignIdx(line, sigil, bodies)
    IN  IF j = 0 THEN 0
        ELSE LET k == SkipWs(line, j + 1)
                 m == SkipWs(line, k + 1)
             IN  IF m <= Len(line) /\ IsWord(line[m], word) THEN j ELSE 0

\* line.includes(' <word> ')
IncludesSpaced(line, word) ==
    \E i \in 2..(Len(line) - 1) :
        IsWord(line[i], word) /\ IsWs(line[i - 1]) /\ IsWs(line[i + 1])

\* /^\s*(@name)\s*=.*\balias\b/ : a word boundary also separates a sigil
\* from the body it prefixes
AliasIdx(line) ==
    LET j == AssignIdx(line, "@", {"id", "mid", "str", "num"})
    IN  IF j = 0 THEN 0
        ELSE LET k == SkipWs(line, j + 1)
             IN  IF \E m \in (k + 1)..Len(line) :
                        line[m].b = "mid" /\ line[m].t = "alias"
                 THEN j ELSE 0

\* /^\s*define\b/
StartsWithDefine(line) ==
    LET j == SkipWs(line, 1) IN j <= Len(line) /\ IsWord(line[j], "define")

\* /^([-a-zA-Z$._][-a-zA-Z$._0-9]*|[0-9]+|"[^"]+"):\s*(;.*)?$/
LabelLine(line) ==
    /\ Len(line) >= 2
    /\ line[1].s = "" /\ AnyBody(line[1])
    /\ IsP(line[2], ":")
    /\ LET k == SkipWs(line, 3) IN k > Len(line) \/ IsP(line[k], ";")

\* /^\s*attributes\s+(#[0-9]+)\s*=/
AttrIdx(line) ==
    LET j == SkipWs(line, 1)
    IN  IF /\ j + 1 <= Len(line)
           /\ IsWord(line[j], "attributes") /\ IsWs(line[j + 1])
           /\ LET a == SkipWs(line, j + 1)
              IN  /\ a <= Len(line) /\ line[a].s = "#" /\ line[a].b = "num"
                  /\ LET k == SkipWs(line, a + 1)
                     IN  k <= Len(line) /\ IsP(line[k], "=")
        THEN SkipWs(line, j + 1) ELSE 0

\* line.match(/\(([^)]*)\)/): <<index of "(", index of ")">> or <<0, 0>>
ParamsClose(line, o) ==
    <<o, First({c \in (o + 1)..Len(line) : IsP(line[c], ")")})>>
ParamsGroup(line) ==
    ParamsClose(line, First({i \in 1..Len(line) :
        IsP(line[i], "(") /\ \E c \in (i + 1)..Len(line) : IsP(line[c], ")")}))

\* parseParameters: every %name of paramsStr becomes a LocalValue definition
\* of the function; k runs over the tokens of paramsStr.
RECURSIVE parseParameters(_, _, _, _, _, _)
parseParameters(paramsStr, lineNum, fullLine, definitions, functionName, k) ==
    IF k > Len(paramsStr) THEN definitions
    ELSE
      LET tok == paramsStr[k]
          name == TokName(tok)
          paramStart == ColOf(fullLine, SeqIndexOf(fullLine, paramsStr))
                        + ColOf(paramsStr, k)
          def == Def(name, LocalValue,
                     Range(lineNum, 0, lineNum, LineLength(fullLine)),
                     Range(lineNum, paramStart, lineNum, paramStart + NameLen(name)),
                     Detail("parameter", lineNum), functionName, None)
      IN  parseParameters(paramsStr, lineNum, fullLine,
              IF tok.s = "%" /\ AnyBody(tok)
              THEN MapSet(definitions, getSymbolKey(LocalValue, name, functionName), def)
              ELSE definitions,
              functionName, k + 1)

\* functionScopes.find(s => s.name === name): its endLine, else lineNum
FuncScopeEnd(functionScopes, i, lineNum) ==
    IF i = 0 THEN lineNum ELSE functionScopes[i].endLine
FuncEndLine(functionScopes, name, lineNum) ==
    FuncScopeEnd(functionScopes,
        First({i \in 1..Len(functionScopes) : functionScopes[i].name = name}),
        lineNum)

\* A variant that registers a function under its Function key alone.
RegisterFunctionOnly(definitions, name, def) ==
    MapSet(definitions, getSymbolKey(Function, name, NoFn), def)

\* definitions.set(Function key, def); definitions.set(GlobalValue key, def)
RegisterFunction(definitions, name, def) ==
    MapSet(MapSet(definitions, getSymbolKey(Function, name, NoFn), def),
           getSymbolKey(GlobalValue, name, NoFn), def)

\* the Function definition of a define line, whose range ends on funcEndLine
FunctionDef(line, lineNum, name, startCol, funcEndLine) ==
    Def(name, Function, Range(lineNum, 0, funcEndLine, 0),
        Range(lineNum, startCol, lineNum, startCol + NameLen(name)),
        Detail("line", lineNum), NoFn, Range(lineNum, 0, funcEndLine, 0))

\* if (paramsMatch) parseParameters(paramsMatch[1], ...): g is the group
DefineParams(line, lineNum, definitions, name, g) ==
    IF g[1] = 0 THEN definitions
    ELSE parseParameters(SubSeq(line, g[1] + 1, g[2] - 1), lineNum, line,
                         definitions, name, 1)

\* the define branch: the Function definition under both keys, then the
\* parameters; h is the index of the header's name token, 0 for no match
DefineMatch(line, lineNum, definitions, functionScopes, h) ==
    IF h = 0 THEN definitions
    ELSE DefineParams(line, lineNum,
             RegisterFunction(definitions, TokName(line[h]),
                 FunctionDef(line, lineNum, TokName(line[h]),
                     indexOf(line, TokName(line[h])),
                     FuncEndLine(functionScopes, TokName(line[h]), lineNum))),
             TokName(line[h]), ParamsGroup(line))
DefineBranch(line, lineNum, definitions, functionScopes) ==
    DefineMatch(line, lineNum, definitions, functionScopes,
                HeaderNameIdx(line, "define"))

\* the declare branch
DeclareMatch(line, lineNum, definitions, h) ==
    IF h = 0 THEN definitions
    ELSE RegisterFunction(definitions, TokName(line[h]),
             LineDef(line, lineNum, TokName(line[h]), Function,
                     Detail("line", lineNum), NoFn))
DeclareBranch(line, lineNum, definitions) ==
    DeclareMatch(line, lineNum, definitions, HeaderNameIdx(line, "declare"))

\* registers the name token at index i (0: no match) under its key
Register(line, lineNum, definitions, i, kind, detail, functionName) ==
    IF i = 0 THEN definitions
    ELSE MapSet(definitions, getSymbolKey(kind, TokName(line[i]), functionName),
                LineDef(line, lineNum, TokName(line[i]), kind, detail, functionName))

\* the label branch (lines inside a function only): selectionRange is
\* (lineNum, 0)..(lineNum, name.length)
LabelBranch(line, lineNum, definitions, currentFunction) ==
    IF currentFunction = NoFn \/ ~LabelLine(line) THEN definitions
    ELSE MapSet(definitions, getSymbolKey(Label, TokName(line[1]), currentFunction),
             Def(TokName(line[1]), Label,
                 Range(lineNum, 0, lineNum, LineLength(line)),
                 Range(lineNum, 0, lineNum, NameLen(TokName(line[1]))),
                 Detail("label", lineNum), currentFunction, None))

\* /^\s*(@name)\s*=/ on a line that is no alias, ifunc or define
GlobalIdx(line) ==
    IF \/ IncludesSpaced(line, "alias")
       \/ IncludesSpaced(line, "ifunc")
       \/ StartsWithDefine(line)
    THEN 0
    ELSE AssignIdx(line, "@", {"id", "mid", "str", "num"})

\* /^\s*(%name)\s*=/ inside a function
LocalIdx(line, currentFunction) ==
    IF currentFunction = NoFn THEN 0
    ELSE AssignIdx(line, "%", {"id", "mid", "str", "num"})

\* the branches after the type branch, in the order of the source
AfterType(line, lineNum, definitions, currentFunction, functionScopes) ==
    Register(line, lineNum,
      Register(line, lineNum,
        Register(line, lineNum,
          LabelBranch(line, lineNum,
            Register(line, lineNum,
              DeclareBranch(line, lineNum,
                DefineBranch(line, lineNum,
                  Register(line, lineNum,
                    Register(line, lineNum, definitions, GlobalIdx(line),
                             GlobalValue, Detail("line", lineNum), NoFn),
                    AliasIdx(line), GlobalValue, Detail("alias", lineNum), NoFn),
                  functionScopes)),
              LocalIdx(line, currentFunction),
              LocalValue, Detail("line", lineNum), currentFunction),
            currentFunction),
          AssignIdx(line, "!", {"mid", "num"}),
          Metadata, Detail("line", lineNum), NoFn),
        AttrIdx(line), AttributeGroup, Detail("line", lineNum), NoFn),
      AssignWordIdx(line, "$", {"id", "mid", "str"}, "comdat"),
      Comdat, Detail("line", lineNum), NoFn)

\* the type branch returns; typeIdx is the index of the type's name or 0
TypeBranch(line, lineNum, definitions, currentFunction, functionScopes, typeIdx) ==
    IF typeIdx # 0
    THEN Register(line, lineNum, definitions, typeIdx,
                  NamedType, Detail("line", lineNum), NoFn)
    ELSE AfterType(line, lineNum, definitions, currentFunction, functionScopes)

parseDefinitions(line, lineNum, definitions, currentFunction, functionScopes) ==
    TypeBranch(line, lineNum, definitions, currentFunction, functionScopes,
               AssignWordIdx(line, "%", {"id", "mid", "str"}, "type"))

-----------------------------------------------------------------------------
(* parseDocument, second pass: references *)

\* the concatenation of a sequence of sequences
RECURSIVE Flatten(_)
Flatten(ss) ==
    IF Len(ss) = 0 THEN <<>>
    ELSE IF Len(ss) = 1 THEN ss[1]
    ELSE LET h == Len(ss) \div 2
         IN  Flatten(SubSeq(ss, 1, h)) \o Flatten(SubSeq(ss, h + 1, Len(ss)))

\* line.substring(0, line.indexOf(';')): the tokens before the first ';'
CodePart(line) ==
    IF \E i \in 1..Len(line) : IsP(line[i], ";")
    THEN SubSeq(line, 1, First({i \in 1..Len(line) : IsP(line[i], ";")}) - 1)
    ELSE line

Ref(name, kind, range, functionName) ==
    [name |-> name, kind |-> kind, range |-> range, functionName |-> functionName]

\* The longest prefix of an "id" body that [a-zA-Z_][a-zA-Z0-9_]* accepts
\* ("" when the body starts with one of - $ .), for the bodies of the model.
MidPrefix(t) ==
    CASE t = "llvm.module.flags" -> "llvm"
      [] t = "llvm.ident" -> "llvm"
      [] OTHER -> ""

\* What /!(?:[a-zA-Z_][a-zA-Z0-9_]*|[0-9]+)/ matches at a "!" token: the name
\* matched (NoFn when there is no match)
MetadataMatch(tok) ==
    IF tok.s # "!" THEN NoFn
    ELSE IF tok.b \in {"mid", "num"} THEN TokName(tok)
    ELSE IF tok.b = "id" /\ MidPrefix(tok.t) # "" THEN Nm("!", MidPrefix(tok.t))
    ELSE NoFn

\* fullMatch.lastIndexOf('%') of a label match, relative to the '%' sigil of
\* the name token: the offset of the last '%' inside the body, -1 when the
\* body holds none (only a quoted body can).
LastPercentInBody(t) ==
    IF \E i \in 1..Len(t) : SubSeq(t, i, i) = "%"
    THEN (CHOOSE i \in 1..Len(t) :
            /\ SubSeq(t, i, i) = "%"
            /\ \A j \in (i + 1)..Len(t) : SubSeq(t, j, j) # "%") - 1
    ELSE -1

\* /\blabel\s+%name/ ending at token m: the index of the 'label' word or 0
LabelKeywordIdx(code, m) ==
    IF m >= 3 /\ code[m].s = "%" /\ AnyBody(code[m]) /\ IsWs(code[m - 1])
    THEN First({i \in 1..(m - 2) :
            /\ code[i].b = "mid" /\ code[i].t = "label"
            /\ \A j \in (i + 1)..(m - 1) : IsWs(code[j])})
    ELSE 0

\* /comdat\s*\((\$name)\)/ with the name at token m
ComdatArg(code, m) ==
    /\ m >= 3 /\ m + 1 <= Len(code)
    /\ code[m].s = "$" /\ NamedBody(code[m])
    /\ IsP(code[m - 1], "(") /\ IsP(code[m + 1], ")")
    /\ \E i \in 1..(m - 2) :
         /\ code[i].b = "mid" /\ code[i].t = "comdat"
         /\ \A j \in (i + 1)..(m - 2) : IsWs(code[j])

parseReferences(line, lineNum, references, currentFunction) ==
    LET code == CodePart(line)
        n == Len(code)
        span(i) == Range(lineNum, ColOf(code, i), lineNum, ColOf(code, i) + Width(code[i]))
        globals == Flatten([i \in 1..n |->
            IF code[i].s = "@" /\ AnyBody(code[i])
            THEN <<Ref(TokName(code[i]), GlobalValue, span(i), NoFn)>> ELSE <<>>])
        locals == Flatten([i \in 1..n |->
            IF code[i].s = "%" /\ AnyBody(code[i])
            THEN <<Ref(TokName(code[i]), LocalValue, span(i), currentFunction)>>
            ELSE <<>>])
        labels == Flatten([i \in 1..n |->
            IF LabelKeywordIdx(code, i) # 0
            THEN LET lp == LastPercentInBody(code[i].t)
                     nameStart == ColOf(code, i) + (IF lp >= 0 THEN lp + 1 ELSE 0) + 1
                 IN  <<Ref(Nm("", code[i].t), Label,
                           Range(lineNum, nameStart, lineNum, nameStart + Len(code[i].t)),
                           currentFunction)>>
            ELSE <<>>])
        metadata == Flatten([i \in 1..n |->
            LET name == MetadataMatch(code[i])
                k == SkipWs(code, i + 1)
                isDef == name = TokName(code[i]) /\ k <= n /\ IsP(code[k], "=")
            IN  IF name # NoFn /\ ~isDef
                THEN <<Ref(name, Metadata,
                           Range(lineNum, ColOf(code, i), lineNum,
                                 ColOf(code, i) + NameLen(name)), NoFn)>>
                ELSE <<>>])
        attrs == Flatten([i \in 1..n |->
            IF code[i].s = "#" /\ code[i].b = "num"
            THEN <<Ref(TokName(code[i]), AttributeGroup, span(i), NoFn)>> ELSE <<>>])
        comdats == Flatten([i \in 1..n |->
            IF ComdatArg(code, i)
            THEN <<Ref(TokName(code[i]), Comdat, span(i), NoFn)>> ELSE <<>>])
    IN  references \o globals \o locals \o labels \o metadata \o attrs \o comdats

-----------------------------------------------------------------------------
(* parseDocument without the cache: both passes over the lines of the text *)

\* The loop: the map and the list are built up to a line before the next
\* line is taken.
RECURSIVE SecondPass(_, _, _, _, _)
SecondPass(lines, i, definitions, references, functionScopes) ==
    CASE Len(definitions) >= 0 /\ Len(references) >= 0 ->
        IF i > Len(lines)
        THEN [definitions |-> definitions, references |-> references,
              functionScopes |-> functionScopes]
        ELSE IF IsBlankOrComment(lines[i])
        THEN SecondPass(lines, i + 1, definitions, references, functionScopes)
        ELSE SecondPass(lines, i + 1,
                 parseDefinitions(lines[i], i - 1, definitions,
                     getFunctionAtPosition(functionScopes, i - 1), functionScopes),
                 parseReferences(lines[i], i - 1, references,
                     getFunctionAtPosition(functionScopes, i - 1)),
                 functionScopes)

BuildIndex(lines) == SecondPass(lines, 1, <<>>, <<>>, FirstPass(lines))

-----------------------------------------------------------------------------
(* The position resolver *)

\* What the regular expression of a family matches at a token: the name
\* matched, NoFn when the token is no match of the family.
FamilyMatch(family, tok) ==
    CASE family = GlobalValue ->
           IF tok.s = "@" /\ AnyBody(tok) THEN TokName(tok) ELSE NoFn
      [] family = LocalValue ->
           IF tok.s = "%" /\ AnyBody(tok) THEN TokName(tok) ELSE NoFn
      [] family = Metadata -> MetadataMatch(tok)
      [] family = AttributeGroup ->
           IF tok.s = "#" /\ tok.b = "num" THEN TokName(tok) ELSE NoFn
      [] family = Comdat ->
           IF tok.s = "$" /\ NamedBody(tok) THEN TokName(tok) ELSE NoFn

\* matchAtPosition: the first match of the family with start <= col <= end,
\* as the index of its token, or 0
matchAtPosition(line, col, family) ==
    First({i \in 1..Len(line) :
        /\ FamilyMatch(family, line[i]) # NoFn
        /\ col >= ColOf(line, i)
        /\ col <= ColOf(line, i) + NameLen(FamilyMatch(family, line[i]))})

Symbol(name, kind, range, functionName) ==
    [name |-> name, kind |-> kind, range |-> range, functionName |-> functionName]

\* if (match) return { name, kind, range, functionName }: i is the index of
\* the family's match at the position (0: none, the next check is made)
FamilySymbol(line, lineNum, family, functionName, i, otherwise) ==
    IF i = 0 THEN otherwise
    ELSE Symbol(FamilyMatch(family, line[i]), family,
                Range(lineNum, ColOf(line, i), lineNum,
                      ColOf(line, i) + NameLen(FamilyMatch(family, line[i]))),
                functionName)

\* /^([-a-zA-Z$._][-a-zA-Z$._0-9]*|[0-9]+|"[^"]+"):/
LabelDefPrefix(line) ==
    Len(line) >= 2 /\ line[1].s = "" /\ AnyBody(line[1]) /\ IsP(line[2], ":")

\* getSymbolAtPosition, on the parsed document and the text of the line
getSymbolAtPosition(parsed, lines, lineNum, col) ==
    LET currentFunction == getFunctionAtPosition(parsed.functionScopes, lineNum)
        line == lines[lineNum + 1]
    IN  FamilySymbol(line, lineNum, GlobalValue, NoFn,
          matchAtPosition(line, col, GlobalValue),
          FamilySymbol(line, lineNum, LocalValue, currentFunction,
            matchAtPosition(line, col, LocalValue),
            IF LabelDefPrefix(line) /\ col <= NameLen(TokName(line[1]))
            THEN Symbol(TokName(line[1]), Label,
                        Range(lineNum, 0, lineNum, NameLen(TokName(line[1]))),
                        currentFunction)
            ELSE FamilySymbol(line, lineNum, Metadata, NoFn,
                   matchAtPosition(line, col, Metadata),
                   FamilySymbol(line, lineNum, AttributeGroup, NoFn,
                     matchAtPosition(line, col, AttributeGroup),
                     FamilySymbol(line, lineNum, Comdat, NoFn,
                       matchAtPosition(line, col, Comdat), None)))))

-----------------------------------------------------------------------------
(* The resolution chain *)

\* LLVMIRReferenceProvider.resolveSymbol: the definition found (None when
\* there is none), with the name and kind it was found under
Resolved(definition, actualName, actualKind) ==
    [definition |-> definition, actualName |-> actualName, actualKind |-> actualKind]

resolveSymbol(definitions, kind, name, functionName) ==
    LET scoped == MapGet(definitions, getSymbolKey(kind, name, functionName))
        exact == MapGet(definitions, getSymbolKey(kind, name, NoFn))
        type == MapGet(definitions, getSymbolKey(NamedType, name, NoFn))
        labelName == Nm("", name.t)
        label == MapGet(definitions, getSymbolKey(Label, labelName, functionName))
        func == MapGet(definitions, getSymbolKey(Function, name, NoFn))
    IN  IF kind \in {LocalValue, Label} /\ functionName # NoFn /\ scoped # None
        THEN Resolved(scoped, name, kind)
        ELSE IF exact # None THEN Resolved(exact, name, kind)
        ELSE IF kind = LocalValue /\ name.s = "%" /\ type # None
        THEN Resolved(type, name, NamedType)
        ELSE IF kind = LocalValue /\ name.s = "%" /\ functionName # NoFn /\ label # None
        THEN Resolved(label, labelName, Label)
        ELSE IF kind = GlobalValue /\ func # None
        THEN Resolved(func, name, Function)
        ELSE Resolved(None, name, kind)

\* A variant of the chain without the label step.
findDefinitionNoLabel(definitions, kind, name, functionName) ==
    LET scoped == MapGet(definitions, getSymbolKey(kind, name, functionName))
        exact == MapGet(definitions, getSymbolKey(kind, name, NoFn))
        type == MapGet(definitions, getSymbolKey(NamedType, name, NoFn))
        func == MapGet(definitions, getSymbolKey(Function, name, NoFn))
    IN  IF kind \in {LocalValue, Label} /\ functionName # NoFn /\ scoped # None
        THEN scoped
        ELSE IF exact # None THEN exact
        ELSE IF kind = LocalValue /\ name.s = "%" /\ type # None THEN type
        ELSE IF kind = GlobalValue /\ func # None THEN func
        ELSE None

\* A variant of the chain that looks a global name up under its Function key
\* before its own key.
findDefinitionFunctionFirst(definitions, kind, name, functionName) ==
    LET scoped == MapGet(definitions, getSymbolKey(kind, name, functionName))
        exact == MapGet(definitions, getSymbolKey(kind, name, NoFn))
        type == MapGet(definitions, getSymbolKey(NamedType, name, NoFn))
        label == MapGet(definitions,
                        getSymbolKey(Label, Nm("", name.t), functionName))
        func == MapGet(definitions, getSymbolKey(Function, name, NoFn))
    IN  IF kind \in {LocalValue, Label} /\ functionName # NoFn /\ scoped # None
        THEN scoped
        ELSE IF kind = GlobalValue /\ func # None THEN func
        ELSE IF exact # None THEN exact
        ELSE IF kind = LocalValue /\ name.s = "%" /\ type # None THEN type
        ELSE IF kind = LocalValue /\ name.s = "%" /\ functionName # NoFn /\ label # None
        THEN label
        ELSE None

\* LLVMIRDefinitionProvider.findDefinition: the same chain, returning the
\* definition alone
findDefinition(definitions, kind, name, functionName) ==
    LET scoped == MapGet(definitions, getSymbolKey(kind, name, functionName))
        exact == MapGet(definitions, getSymbolKey(kind, name, NoFn))
        type == MapGet(definitions, getSymbolKey(NamedType, name, NoFn))
        label == MapGet(definitions,
                        getSymbolKey(Label, Nm("", name.t), functionName))
        func == MapGet(definitions, getSymbolKey(Function, name, NoFn))
    IN  IF kind \in {LocalValue, Label} /\ functionName # NoFn /\ scoped # None
        THEN scoped
        ELSE IF exact # None THEN exact
        ELSE IF kind = LocalValue /\ name.s = "%" /\ type # None THEN type
        ELSE IF kind = LocalValue /\ name.s = "%" /\ functionName # NoFn /\ label # None
        THEN label
        ELSE IF kind = GlobalValue /\ func # None THEN func
        ELSE None

-----------------------------------------------------------------------------
(* The providers, on a parsed document and the lines of the text *)

\* vscode.Location(document.uri, range)
Location(range) == range

\* LLVMIRDefinitionProvider.provideDefinition
DefinitionLocation(definition) ==
    IF definition = None THEN None ELSE Location(definition.selectionRange)
DefinitionOf(parsed, symbol) ==
    IF symbol = None THEN None
    ELSE DefinitionLocation(findDefinition(parsed.definitions, symbol.kind,
                                           symbol.name, symbol.functionName))
provideDefinition(parsed, lines, lineNum, col) ==
    DefinitionOf(parsed, getSymbolAtPosition(parsed, lines, lineNum, col))

\* A variant of the hover provider's chain that tries the label before the
\* named type.
hoverFindDefinitionLabelFirst(definitions, kind, name, functionName) ==
    LET scoped == MapGet(definitions, getSymbolKey(kind, name, functionName))
        exact == MapGet(definitions, getSymbolKey(kind, name, NoFn))
        type == MapGet(definitions, getSymbolKey(NamedType, name, NoFn))
        label == MapGet(definitions,
                        getSymbolKey(Label, Nm("", name.t), functionName))
        func == MapGet(definitions, getSymbolKey(Function, name, NoFn))
    IN  IF kind \in {LocalValue, Label} /\ functionName # NoFn /\ scoped # None
        THEN scoped
        ELSE IF exact # None THEN exact
        ELSE IF kind = LocalValue /\ name.s = "%" /\ functionName # NoFn /\ label # None
        THEN label
        ELSE IF kind = LocalValue /\ name.s = "%" /\ type # None THEN type
        ELSE IF kind = GlobalValue /\ func # None THEN func
        ELSE None

\* LLVMIRHoverProvider.findDefinition: the hover provider's own copy of the
\* chain
hoverFindDefinition(definitions, kind, name, functionName) ==
    LET scoped == MapGet(definitions, getSymbolKey(kind, name, functionName))
        exact == MapGet(definitions, getSymbolKey(kind, name, NoFn))
        type == MapGet(definitions, getSymbolKey(NamedType, name, NoFn))
        label == MapGet(definitions,
                        getSymbolKey(Label, Nm("", name.t), functionName))
        func == MapGet(definitions, getSymbolKey(Function, name, NoFn))
    IN  IF kind \in {LocalValue, Label} /\ functionName # NoFn /\ scoped # None
        THEN scoped
        ELSE IF exact # None THEN exact
        ELSE IF kind = LocalValue /\ name.s = "%" /\ type # None THEN type
        ELSE IF kind = LocalValue /\ name.s = "%" /\ functionName # NoFn /\ label # None
        THEN label
        ELSE IF kind = GlobalValue /\ func # None THEN func
        ELSE None

\* LLVMIRHoverProvider.getKindName
getKindName(kind) ==
    CASE kind = Function -> "Function"
      [] kind = GlobalValue -> "Global Variable"
      [] kind = LocalValue -> "Local Value"
      [] kind = NamedType -> "Type Definition"
      [] kind = Label -> "Label"
      [] kind = Metadata -> "Metadata"
      [] kind = AttributeGroup -> "Attribute Group"
      [] kind = Comdat -> "Comdat"
      [] OTHER -> "Symbol"

\* LLVMIRHoverProvider.provideHover: vscode.Hover(markdown, symbol.range); the
\* markdown is the kind's label, the definition's detail as code (a detail is
\* never empty) and "Defined at line <n>" with "in <function>" when the
\* definition has one.
Hover(definition, range) ==
    [kindName |-> getKindName(definition.kind), code |-> definition.detail,
     line |-> definition.selectionRange.sl + 1,
     functionName |-> definition.functionName, range |-> range]
HoverAt(definition, symbol) ==
    IF definition = None THEN None ELSE Hover(definition, symbol.range)
HoverOf(parsed, symbol) ==
    IF symbol = None THEN None
    ELSE HoverAt(hoverFindDefinition(parsed.definitions, symbol.kind,
                                     symbol.name, symbol.functionName), symbol)
provideHover(parsed, lines, lineNum, col) ==
    HoverOf(parsed, getSymbolAtPosition(parsed, lines, lineNum, col))

\* A variant of the loop's body without the check of the function of a
\* reference to a function-scoped symbol.
RefLocationsAnyFunction(ref, symbol, r, definition) ==
    LET isDef == definition # None /\ ref.range = definition.selectionRange
        byName == ref.name = symbol.name /\ ref.kind = symbol.kind
        asLabel == /\ r.actualKind = Label /\ ref.kind = LocalValue
                   /\ ref.functionName = symbol.functionName
                   /\ (IF ref.name.s = "%" THEN Nm("", ref.name.t) ELSE ref.name)
                        = r.actualName
                   /\ ~isDef
    IN  IF byName /\ isDef THEN <<>>
        ELSE (IF byName THEN <<Location(ref.range)>> ELSE <<>>)
             \o (IF asLabel THEN <<Location(ref.range)>> ELSE <<>>)

\* The locations one reference adds in the loop of provideReferences
RefLocations(ref, symbol, r, definition) ==
    LET scopedKind == r.actualKind \in {LocalValue, Label}
        isDef == definition # None /\ ref.range = definition.selectionRange
        byName == ref.name = symbol.name /\ ref.kind = symbol.kind
        asLabel == /\ r.actualKind = Label /\ ref.kind = LocalValue
                   /\ ref.functionName = symbol.functionName
                   /\ (IF ref.name.s = "%" THEN Nm("", ref.name.t) ELSE ref.name)
                        = r.actualName
                   /\ ~isDef
    IN  IF scopedKind /\ ref.functionName # symbol.functionName THEN <<>>
        ELSE IF byName /\ isDef THEN <<>>
        ELSE (IF byName THEN <<Location(ref.range)>> ELSE <<>>)
             \o (IF asLabel THEN <<Location(ref.range)>> ELSE <<>>)

\* LLVMIRReferenceProvider.provideReferences
ReferenceLocations(parsed, symbol, r, includeDeclaration) ==
    (IF includeDeclaration /\ r.definition # None
     THEN <<Location(r.definition.selectionRange)>> ELSE <<>>)
    \o Flatten([i \in 1..Len(parsed.references) |->
           RefLocations(parsed.references[i], symbol, r, r.definition)])
ReferencesOf(parsed, symbol, includeDeclaration) ==
    IF symbol = None THEN None
    ELSE ReferenceLocations(parsed, symbol,
             resolveSymbol(parsed.definitions, symbol.kind, symbol.name,
                           symbol.functionName),
             includeDeclaration)
provideReferences(parsed, lines, lineNum, col, includeDeclaration) ==
    ReferencesOf(parsed, getSymbolAtPosition(parsed, lines, lineNum, col),
                 includeDeclaration)

\* The bodies that [0-9]+ accepts, among the bodies of the model
NumBodies == {"0", "1", "2", "3", "4"}

\* key.replace('GlobalValue', 'Function') on the key of a module-level
\* definition, `${kind}:${name}`: the kind renders as a number, so only a name
\* that spells GlobalValue is changed.
ReplaceGlobalValue(key) ==
    IF key[3].t = "GlobalValue" THEN <<key[1], key[2], Nm(key[3].s, "Function")>>
    ELSE key

\* vscode.DocumentSymbol(name, detail, kind, range, selectionRange)
DocumentSymbol(def, kind) ==
    [name |-> def.name, kind |-> kind, range |-> def.range,
     selectionRange |-> def.selectionRange]

\* LLVMIRDocumentSymbolProvider.provideDocumentSymbols
provideDocumentSymbols(parsed) ==
    LET defs == parsed.definitions
        n == Len(defs)
        pick(kind, keep(_, _), as) == Flatten([i \in 1..n |->
            IF defs[i][2].kind = kind /\ keep(defs[i][1], defs[i][2])
            THEN <<DocumentSymbol(defs[i][2], as)>> ELSE <<>>])
        all(key, def) == TRUE
        notFunction(key, def) == ~MapHas(defs, ReplaceGlobalValue(key))
        named(key, def) == ~(def.name.s = "!" /\ def.name.t \in NumBodies)
    IN  pick(Function, all, "Function")
        \o pick(GlobalValue, notFunction, "Variable")
        \o pick(NamedType, all, "Struct")
        \o pick(Metadata, named, "Property")
        \o pick(AttributeGroup, all, "Constant")

-----------------------------------------------------------------------------
(* The cache and parseDocument *)

\* The documents (by uri) that the editor may hold
Docs == {"a", "b"}

\* A variant of the entry that keeps the index without its function scopes.
CacheEntryNoScopes(version, parsed) ==
    [version |-> version, parsed |-> [parsed EXCEPT !.functionScopes = <<>>]]

\* documentCache.get(uri) is None or [version, parsed]
CacheEntry(version, parsed) == [version |-> version, parsed |-> parsed]

\* parseDocument(document): the index returned and the cache afterwards
Store(cache, d, version, parsed) ==
    [parsed |-> parsed, hit |-> FALSE,
     cache |-> [cache EXCEPT ![d] = CacheEntry(version, parsed)]]
\* A variant that returns whatever entry the document has.
parseDocumentAnyVersion(cache, d, document) ==
    IF cache[d] # None
    THEN [parsed |-> cache[d].parsed, hit |-> TRUE, cache |-> cache]
    ELSE Store(cache, d, document.version, BuildIndex(document.lines))

parseDocument(cache, d, document) ==
    IF cache[d] # None /\ cache[d].version = document.version
    THEN [parsed |-> cache[d].parsed, hit |-> TRUE, cache |-> cache]
    ELSE Store(cache, d, document.version, BuildIndex(document.lines))

\* A variant that leaves the entry in the cache.
clearCacheKept(cache, d) == cache

\* clearCache(uri): documentCache.delete(uri.toString())
clearCache(cache, d) == [cache EXCEPT ![d] = None]

\* clearAllCache(): documentCache.clear()
clearAllCache(cache) == [d \in DOMAIN cache |-> None]

-----------------------------------------------------------------------------
(* The editor's events and the provider calls *)

\* the number of versions a document goes through (one more than its edits)
MaxVersion == 2
\* the longest text, in lines, that an edit may produce
MaxLines == 9
\* the longest text, in lines, of the scope detector's specification
MaxScopeLines == 4

Document(open, version, lines) == [open |-> open, version |-> version, lines |-> lines]
Closed == Document(FALSE, 0, <<>>)

\* no provider call has a result outstanding
Idle == [op |-> "idle"]

\* the texts one edit of the text makes, with the lines of the pool
Replaced(lines, i, l) == [lines EXCEPT ![i] = l]
Inserted(lines, i, l) == SubSeq(lines, 1, i - 1) \o <<l>> \o SubSeq(lines, i, Len(lines))
Deleted(lines, i) == SubSeq(lines, 1, i - 1) \o SubSeq(lines, i + 1, Len(lines))
Edits(lines, pool) ==
    {Replaced(lines, i, l) : i \in 1..Len(lines), l \in pool}
    \cup (IF Len(lines) < MaxLines
          THEN {Inserted(lines, i, l) : i \in 1..(Len(lines) + 1), l \in pool}
          ELSE {})
    \cup {Deleted(lines, i) : i \in 1..Len(lines)}

\* A document is opened in the editor (a new document starts at version 1);
\* the extension has no handler for it.
Open(d, lines) ==
    /\ last = Idle
    /\ ~docs[d].open
    /\ docs' = [docs EXCEPT ![d] = Document(TRUE, 1, lines)]
    /\ UNCHANGED <<documentCache, last>>

\* onDidChangeTextDocument: the text is edited, the version grows, and the
\* handler clears the document's cache entry.
Change(d, lines) ==
    /\ last = Idle
    /\ docs[d].open
    /\ docs[d].version < MaxVersion
    /\ docs' = [docs EXCEPT ![d] = Document(TRUE, docs[d].version + 1, lines)]
    /\ documentCache' = clearCache(documentCache, d)
    /\ UNCHANGED last

\* onDidCloseTextDocument: the handler clears the document's cache entry.
Close(d) ==
    /\ last = Idle
    /\ docs[d].open
    /\ docs' = [docs EXCEPT ![d] = Closed]
    /\ documentCache' = clearCache(documentCache, d)
    /\ UNCHANGED last

\* The result of a provider call: the call and its position, the index
\* parseDocument returned to it (p.hit: from the cache) and the value returned.
Outcome(op, d, lineNum, col, p, includeDeclaration, result) ==
    [op |-> op, doc |-> d, line |-> lineNum, col |-> col, parsed |-> p.parsed,
     hit |-> p.hit, includeDeclaration |-> includeDeclaration, result |-> result]

\* the positions of a text: a line and a token boundary on it
Positions(lines) ==
    UNION {{<<i - 1, ColOf(lines[i], j)>> : j \in 1..(Len(lines[i]) + 1)} :
             i \in 1..Len(lines)}

\* LLVMIRDefinitionProvider.provideDefinition(document, position), at any
\* position of the open document d
ProvideDefinition(d) ==
    /\ last = Idle
    /\ docs[d].open
    /\ \E p \in {parseDocument(documentCache, d, docs[d])} :
           /\ documentCache' = p.cache
           /\ \E pos \in Positions(docs[d].lines) :
                last' = Outcome("definition", d, pos[1], pos[2], p,
                    FALSE,
                    provideDefinition(p.parsed, docs[d].lines, pos[1], pos[2]))
    /\ UNCHANGED docs

\* LLVMIRReferenceProvider.provideReferences(document, position, context), at
\* any position of the open document d and with either context
ProvideReferences(d) ==
    /\ last = Idle
    /\ docs[d].open
    /\ \E p \in {parseDocument(documentCache, d, docs[d])} :
           /\ documentCache' = p.cache
           /\ \E pos \in Positions(docs[d].lines) : \E includeDeclaration \in BOOLEAN :
                last' = Outcome("references", d, pos[1], pos[2], p,
                    includeDeclaration,
                    provideReferences(p.parsed, docs[d].lines, pos[1], pos[2],
                                      includeDeclaration))
    /\ UNCHANGED docs

\* LLVMIRDocumentSymbolProvider.provideDocumentSymbols(document)
ProvideDocumentSymbols(d) ==
    /\ last = Idle
    /\ docs[d].open
    /\ \E p \in {parseDocument(documentCache, d, docs[d])} :
           /\ documentCache' = p.cache
           /\ last' = Outcome("symbols", d, -1, -1, p, FALSE,
                              provideDocumentSymbols(p.parsed))
    /\ UNCHANGED docs

\* LLVMIRHoverProvider.provideHover(document, position), at any position of
\* the open document d
ProvideHover(d) ==
    /\ last = Idle
    /\ docs[d].open
    /\ \E p \in {parseDocument(documentCache, d, docs[d])} :
           /\ documentCache' = p.cache
           /\ \E pos \in Positions(docs[d].lines) :
                last' = Outcome("hover", d, pos[1], pos[2], p, FALSE,
                    provideHover(p.parsed, docs[d].lines, pos[1], pos[2]))
    /\ UNCHANGED docs

\* deactivate(): clearAllCache(); the extension is activated again when a
\* document of the language is next used.
Deactivate ==
    /\ last = Idle
    /\ documentCache' = clearAllCache(documentCache)
    /\ UNCHANGED <<docs, last>>

\* The provider's result goes back to the editor: the calls are synchronous,
\* one at a time.
Return ==
    /\ last # Idle
    /\ last' = Idle
    /\ UNCHANGED <<docs, documentCache>>

\* parseDocument(document) called on its own, with the snapshot (uri,
\* version, text) the caller holds; `before` keeps the cache the call found.
ParseSnapshot(d, version, lines) ==
    /\ last = Idle
    /\ docs' = [docs EXCEPT ![d] = Document(TRUE, version, lines)]
    /\ \E p \in {parseDocument(documentCache, d, Document(TRUE, version, lines))} :
           /\ documentCache' = p.cache
           /\ last' = [before |-> documentCache]
                        @@ Outcome("parse", d, -1, -1, p, FALSE, None)

\* parseDocument(document) called twice on one snapshot of the open document
\* d, with or without clearCache(uri) in between; `first` keeps the index
\* the first call returned.
ParseTwice(d, cleared) ==
    /\ last = Idle
    /\ docs[d].open
    /\ \E p1 \in {parseDocument(documentCache, d, docs[d])} :
         \E p2 \in {parseDocument(IF cleared THEN clearCache(p1.cache, d)
                                             ELSE p1.cache, d, docs[d])} :
           /\ documentCache' = p2.cache
           /\ last' = [first |-> p1.parsed, firstHit |-> p1.hit,
                        cleared |-> cleared]
                        @@ Outcome("twice", d, -1, -1, p2, FALSE, None)
    /\ UNCHANGED docs

\* clearCache(uri) and clearAllCache() called on their own
ClearCache(d) ==
    /\ last = Idle
    /\ documentCache[d] # None
    /\ documentCache' = clearCache(documentCache, d)
    /\ UNCHANGED <<docs, last>>
ClearAllCache ==
    /\ last = Idle
    /\ documentCache' = clearAllCache(documentCache)
    /\ UNCHANGED <<docs, last>>

\* the state with document "a" open on the text and nothing cached
Opened(lines) ==
    /\ docs = [d \in Docs |-> IF d = "a" THEN Document(TRUE, 1, lines) ELSE Closed]
    /\ documentCache = [d \in Docs |-> None]
    /\ last = Idle

-----------------------------------------------------------------------------
(* The example module shipped with the extension: function @main *)

FixtureMain ==
<<
    <<Kw("define"), SP, Kw("dso_local"), SP, Kw("i32"), SP, Tok("@", "mid", "main"), P("("),
      Kw("i32"), SP, Kw("noundef"), SP, Tok("%", "mid", "argc"), P(","), SP, Kw("ptr"), SP,
      Kw("noundef"), SP, Tok("%", "mid", "argv"), P(")"), SP, Tok("#", "num", "0"), SP,
      P("{")>>,
    <<Kw("entry"), P(":")>>,
    <<IND, Tok("%", "mid", "retval"), SP, P("="), SP, Kw("alloca"), SP, Kw("i32"), P(","), SP,
      Kw("align"), SP, Tok("", "num", "4")>>,
    <<IND, Tok("%", "id", "argc.addr"), SP, P("="), SP, Kw("alloca"), SP, Kw("i32"), P(","),
      SP, Kw("align"), SP, Tok("", "num", "4")>>,
    <<IND, Tok("%", "id", "argv.addr"), SP, P("="), SP, Kw("alloca"), SP, Kw("ptr"), P(","),
      SP, Kw("align"), SP, Tok("", "num", "8")>>,
    <<IND, Tok("%", "mid", "i"), SP, P("="), SP, Kw("alloca"), SP, Kw("i32"), P(","), SP,
      Kw("align"), SP, Tok("", "num", "4")>>,
    <<IND, Tok("%", "mid", "sum"), SP, P("="), SP, Kw("alloca"), SP, Kw("i32"), P(","), SP,
      Kw("align"), SP, Tok("", "num", "4")>>,
    <<IND, Kw("store"), SP, Kw("i32"), SP, Tok("", "num", "0"), P(","), SP, Kw("ptr"), SP,
      Tok("%", "mid", "retval"), P(","), SP, Kw("align"), SP, Tok("", "num", "4")>>,
    <<IND, Kw("store"), SP, Kw("i32"), SP, Tok("%", "mid", "argc"), P(","), SP, Kw("ptr"), SP,
      Tok("%", "id", "argc.addr"), P(","), SP, Kw("align"), SP, Tok("", "num", "4")>>,
    <<IND, Kw("store"), SP, Kw("ptr"), SP, Tok("%", "mid", "argv"), P(","), SP, Kw("ptr"), SP,
      Tok("%", "id", "argv.addr"), P(","), SP, Kw("align"), SP, Tok("", "num", "8")>>,
    <<IND, Kw("store"), SP, Kw("i32"), SP, Tok("", "num", "0"), P(","), SP, Kw("ptr"), SP,
      Tok("%", "mid", "i"), P(","), SP, Kw("align"), SP, Tok("", "num", "4")>>,
    <<IND, Kw("store"), SP, Kw("i32"), SP, Tok("", "num", "0"), P(","), SP, Kw("ptr"), SP,
      Tok("%", "mid", "sum"), P(","), SP, Kw("align"), SP, Tok("", "num", "4")>>,
    <<IND, Kw("br"), SP, Kw("label"), SP, Tok("%", "id", "for.cond")>>,
    <<>>,
    <<Tok("", "id", "for.cond"), P(":"), Ws("                                         "),
      P(";"), SP, Kw("preds"), SP, P("="), SP, Tok("%", "id", "for.inc"), P(","), SP, Tok("%",
      "mid", "entry")>>,
    <<IND, Tok("%", "num", "0"), SP, P("="), SP, Kw("load"), SP, Kw("i32"), P(","), SP,
      Kw("ptr"), SP, Tok("%", "mid", "i"), P(","), SP, Kw("align"), SP, Tok("", "num", "4")>>,
    <<IND, Tok("%", "mid", "cmp"), SP, P("="), SP, Kw("icmp"), SP, Kw("slt"), SP, Kw("i32"),
      SP, Tok("%", "num", "0"), P(","), SP, Tok("", "num", "10")>>,
    <<IND, Kw("br"), SP, Kw("i1"), SP, Tok("%", "mid", "cmp"), P(","), SP, Kw("label"), SP,
      Tok("%", "id", "for.body"), P(","), SP, Kw("label"), SP, Tok("%", "id", "for.end")>>,
    <<>>,
    <<Tok("", "id", "for.body"), P(":"), Ws("                                         "),
      P(";"), SP, Kw("preds"), SP, P("="), SP, Tok("%", "id", "for.cond")>>,
    <<IND, Tok("%", "num", "1"), SP, P("="), SP, Kw("load"), SP, Kw("i32"), P(","), SP,
      Kw("ptr"), SP, Tok("%", "mid", "i"), P(","), SP, Kw("align"), SP, Tok("", "num", "4")>>,
    <<IND, Tok("%", "num", "2"), SP, P("="), SP, Kw("load"), SP, Kw("i32"), P(","), SP,
      Kw("ptr"), SP, Tok("%", "mid", "sum"), P(","), SP, Kw("align"), SP, Tok("", "num", "4")>>,
    <<IND, Tok("%", "mid", "add"), SP, P("="), SP, Kw("add"), SP, Kw("nsw"), SP, Kw("i32"), SP,
      Tok("%", "num", "2"), P(","), SP, Tok("%", "num", "1")>>,
    <<IND, Kw("store"), SP, Kw("i32"), SP, Tok("%", "mid", "add"), P(","), SP, Kw("ptr"), SP,
      Tok("%", "mid", "sum"), P(","), SP, Kw("align"), SP, Tok("", "num", "4")>>,
    <<IND, Kw("br"), SP, Kw("label"), SP, Tok("%", "id", "for.inc")>>,
    <<>>,
    <<Tok("", "id", "for.inc"), P(":"), Ws("                                          "),
      P(";"), SP, Kw("preds"), SP, P("="), SP, Tok("%", "id", "for.body")>>,
    <<IND, Tok("%", "num", "3"), SP, P("="), SP, Kw("load"), SP, Kw("i32"), P(","), SP,
      Kw("ptr"), SP, Tok("%", "mid", "i"), P(","), SP, Kw("align"), SP, Tok("", "num", "4")>>,
    <<IND, Tok("%", "mid", "inc"), SP, P("="), SP, Kw("add"), SP, Kw("nsw"), SP, Kw("i32"), SP,
      Tok("%", "num", "3"), P(","), SP, Tok("", "num", "1")>>,
    <<IND, Kw("store"), SP, Kw("i32"), SP, Tok("%", "mid", "inc"), P(","), SP, Kw("ptr"), SP,
      Tok("%", "mid", "i"), P(","), SP, Kw("align"), SP, Tok("", "num", "4")>>,
    <<IND, Kw("br"), SP, Kw("label"), SP, Tok("%", "id", "for.cond")>>,
    <<>>,
    <<Tok("", "id", "for.end"), P(":"), Ws("                                          "),
      P(";"), SP, Kw("preds"), SP, P("="), SP, Tok("%", "id", "for.cond")>>,
    <<IND, Tok("%", "mid", "call"), SP, P("="), SP, Kw("call"), SP, Kw("i32"), SP, P("("),
      Kw("ptr"), P(","), SP, Tok("", "id", "..."), P(")"), SP, Tok("@", "mid", "printf"),
      P("("), Kw("ptr"), SP, Kw("noundef"), SP, Tok("@", "id", ".str"), P(")")>>,
    <<IND, Tok("%", "num", "4"), SP, P("="), SP, Kw("load"), SP, Kw("i32"), P(","), SP,
      Kw("ptr"), SP, Tok("%", "mid", "sum"), P(","), SP, Kw("align"), SP, Tok("", "num", "4")>>,
    <<IND, Kw("ret"), SP, Kw("i32"), SP, Tok("%", "num", "4")>>,
    <<P("}")>>
>>

-----------------------------------------------------------------------------
(* SpecFixture: the providers on the example module *)

InitFixture == Opened(FixtureMain)
NextFixture ==
    \/ ProvideDefinition("a")
    \/ ProvideReferences("a")
    \/ ProvideDocumentSymbols("a")
    \/ Return
SpecFixture == InitFixture /\ [][NextFixture]_vars

-----------------------------------------------------------------------------
(* The lines of the texts under check, as tokens *)

\* define void @f(i32 %p) {
DefineF ==
    <<Kw("define"), SP, Kw("void"), SP, Tok("@", "mid", "f"), P("("), Kw("i32"), SP, Tok("%", "mid", "p"), P(")"), SP, P("{")>>
\* define void @g() {
DefineG ==
    <<Kw("define"), SP, Kw("void"), SP, Tok("@", "mid", "g"), P("("), P(")"), SP, P("{")>>
\* define void @f()
HeaderF ==
    <<Kw("define"), SP, Kw("void"), SP, Tok("@", "mid", "f"), P("("), P(")")>>
\* {
OpenBrace ==
    <<P("{")>>
\* }
CloseBrace ==
    <<P("}")>>
\* ; }
CommentBrace ==
    <<P(";"), SP, P("}")>>
\*   ret void
RetVoid ==
    <<IND, Kw("ret"), SP, Kw("void")>>
\* L:
LabelL ==
    <<Kw("L"), P(":")>>
\*   br label %L
BrL ==
    <<IND, Kw("br"), SP, Kw("label"), SP, Tok("%", "mid", "L")>>
\* %L = type { i32 }
TypeL ==
    <<Tok("%", "mid", "L"), SP, P("="), SP, Kw("type"), SP, P("{"), SP, Kw("i32"), SP, P("}")>>
\*   %L = add i32 %p, 1
LocalL ==
    <<IND, Tok("%", "mid", "L"), SP, P("="), SP, Kw("add"), SP, Kw("i32"), SP, Tok("%", "mid", "p"), P(","), SP, Tok("", "num", "1")>>
\*   %x = phi i32 [ %p, %L ]
PhiX ==
    <<IND, Tok("%", "mid", "x"), SP, P("="), SP, Kw("phi"), SP, Kw("i32"), SP, P("["), SP, Tok("%", "mid", "p"), P(","), SP, Tok("%", "mid", "L"), SP, P("]")>>
\*   %x = add i32 %p, 1
LocalX ==
    <<IND, Tok("%", "mid", "x"), SP, P("="), SP, Kw("add"), SP, Kw("i32"), SP, Tok("%", "mid", "p"), P(","), SP, Tok("", "num", "1")>>
\*   %y = add i32 %x, 1
UseX ==
    <<IND, Tok("%", "mid", "y"), SP, P("="), SP, Kw("add"), SP, Kw("i32"), SP, Tok("%", "mid", "x"), P(","), SP, Tok("", "num", "1")>>
\* %T = type { i32 }
TypeT ==
    <<Tok("%", "mid", "T"), SP, P("="), SP, Kw("type"), SP, P("{"), SP, Kw("i32"), SP, P("}")>>
\* @g = global i32 0
GlobalG ==
    <<Tok("@", "mid", "g"), SP, P("="), SP, Kw("global"), SP, Kw("i32"), SP, Tok("", "num", "0")>>
\* define i32 @main() {
DefineMain ==
    <<Kw("define"), SP, Kw("i32"), SP, Tok("@", "mid", "main"), P("("), P(")"), SP, P("{")>>
\*   %r = call i32 @main()
CallMain ==
    <<IND, Tok("%", "mid", "r"), SP, P("="), SP, Kw("call"), SP, Kw("i32"), SP, Tok("@", "mid", "main"), P("("), P(")")>>
\* !llvm.module.flags = !{!0}
ModuleFlags ==
    <<Tok("!", "id", "llvm.module.flags"), SP, P("="), SP, P("!"), P("{"), Tok("!", "num", "0"), P("}")>>
\* !0 = !{i32 1}
Meta0 ==
    <<Tok("!", "num", "0"), SP, P("="), SP, P("!"), P("{"), Kw("i32"), SP, Tok("", "num", "1"), P("}")>>
\* declare i32 @main()
DeclareMain ==
    <<Kw("declare"), SP, Kw("i32"), SP, Tok("@", "mid", "main"), P("("), P(")")>>
\* @main = global i32 0
GlobalMain ==
    <<Tok("@", "mid", "main"), SP, P("="), SP, Kw("global"), SP, Kw("i32"), SP, Tok("", "num", "0")>>
\* @main = alias i32, ptr @g
AliasMain ==
    <<Tok("@", "mid", "main"), SP, P("="), SP, Kw("alias"), SP, Kw("i32"), P(","), SP, Kw("ptr"), SP, Tok("@", "mid", "g")>>
\* @GlobalValue = global i32 0
GlobalGlobalValue ==
    <<Tok("@", "mid", "GlobalValue"), SP, P("="), SP, Kw("global"), SP, Kw("i32"), SP, Tok("", "num", "0")>>
\* @Function = global i32 0
GlobalFunction ==
    <<Tok("@", "mid", "Function"), SP, P("="), SP, Kw("global"), SP, Kw("i32"), SP, Tok("", "num", "0")>>
\* !named = !{!0}
NamedMeta ==
    <<Tok("!", "mid", "named"), SP, P("="), SP, P("!"), P("{"), Tok("!", "num", "0"), P("}")>>
\* attributes #0 = { nounwind }
Attributes0 ==
    <<Kw("attributes"), SP, Tok("#", "num", "0"), SP, P("="), SP, P("{"), SP, Kw("nounwind"), SP, P("}")>>

\* define void @f(i32 %x, i32 %x) {
DefineDup ==
    <<Kw("define"), SP, Kw("void"), SP, Tok("@", "mid", "f"), P("("), Kw("i32"), SP, Tok("%", "mid", "x"), P(","), SP, Kw("i32"), SP, Tok("%", "mid", "x"), P(")"), SP, P("{")>>
\* define void @f(ptr dereferenceable(8) %p) {
DefineDeref ==
    <<Kw("define"), SP, Kw("void"), SP, Tok("@", "mid", "f"), P("("), Kw("ptr"), SP, Kw("dereferenceable"), P("("), Tok("", "num", "8"), P(")"), SP, Tok("%", "mid", "p"), P(")"), SP, P("{")>>
\* define dereferenceable(8) ptr @f(ptr %p) {
DefineRetDeref ==
    <<Kw("define"), SP, Kw("dereferenceable"), P("("), Tok("", "num", "8"), P(")"), SP, Kw("ptr"), SP, Tok("@", "mid", "f"), P("("), Kw("ptr"), SP, Tok("%", "mid", "p"), P(")"), SP, P("{")>>
\* @g = global ptr @alias
GlobalPtrAlias ==
    <<Tok("@", "mid", "g"), SP, P("="), SP, Kw("global"), SP, Kw("ptr"), SP, Tok("@", "mid", "alias")>>
\* "a%b":
LabelQuoted ==
    <<Tok("", "str", "\"a%b\""), P(":")>>
\*   br label %"a%b"
BrQuoted ==
    <<IND, Kw("br"), SP, Kw("label"), SP, Tok("%", "str", "\"a%b\"")>>

-----------------------------------------------------------------------------
(* The texts an editor session goes through: the seeds and what one edit of
   a seed with a line of the pool gives *)

Texts(seeds, pool) == seeds \cup UNION {Edits(seed, pool) : seed \in seeds}

\* labels, branches and local values in two functions
LabelSeed == <<DefineF, LabelL, BrL, CloseBrace, DefineG, LabelL, BrL, CloseBrace>>
LocalSeed == <<DefineF, LocalX, CloseBrace, DefineG, UseX, BrL, CloseBrace>>
LabelPool ==
    {DefineF, DefineG, OpenBrace, CloseBrace, LabelL, BrL, TypeL, LocalL, PhiX, UseX}
LabelTexts == Texts({LabelSeed, LocalSeed}, LabelPool)

\* a module of one function, one global variable, one named type, one named
\* and one numbered metadata node
OutlineSeed ==
    <<TypeT, GlobalG, DefineMain, CallMain, CloseBrace, ModuleFlags, Meta0>>
OutlinePool ==
    {DeclareMain, GlobalMain, AliasMain, GlobalGlobalValue, GlobalFunction,
     NamedMeta, Attributes0, DefineMain, CloseBrace, LabelL, LocalX, GlobalG}
OutlineTexts == Texts({OutlineSeed}, OutlinePool)

\* every text of at most MaxScopeLines lines of headers, braces and comments
ScopePool == {DefineG, HeaderF, OpenBrace, CloseBrace, CommentBrace, RetVoid}
RECURSIVE SeqsUpTo(_, _)
SeqsUpTo(pool, n) ==
    IF n = 0 THEN {<<>>}
    ELSE SeqsUpTo(pool, n - 1)
         \cup {Append(t, l) : t \in {u \in SeqsUpTo(pool, n - 1) : Len(u) = n - 1},
                              l \in pool}
ScopeTexts == SeqsUpTo(ScopePool, MaxScopeLines) \ {<<>>}

\* repeated names, parenthesized attributes and a quoted label
ScanSeed ==
    <<GlobalG, DefineDup, LocalX, LabelQuoted, BrQuoted, CloseBrace, DefineG,
      CloseBrace>>
ScanPool ==
    {DefineDup, DefineDeref, DefineRetDeref, GlobalPtrAlias, GlobalG, LocalX,
     LabelQuoted, BrQuoted, BrL, RetVoid, ModuleFlags, CloseBrace}
ScanTexts == Texts({ScanSeed}, ScanPool)

\* the texts of the documents whose cache entries are followed
CacheTexts ==
    {<<GlobalG>>, <<DefineG, CloseBrace>>, <<DefineG, LabelL, BrL, CloseBrace>>}

-----------------------------------------------------------------------------
(* The specifications *)

\* One document, edited and queried: labels and local values.
Init == \E lines \in {LabelSeed, LocalSeed} : Opened(lines)
Next ==
    \/ \E lines \in LabelTexts : Change("a", lines)
    \/ ProvideDefinition("a")
    \/ ProvideReferences("a")
    \/ ProvideDocumentSymbols("a")
    \/ Return
Spec == Init /\ [][Next]_vars

\* One document, edited and queried: module-level definitions.
InitOutline == Opened(OutlineSeed)
NextOutline ==
    \/ \E lines \in OutlineTexts : Change("a", lines)
    \/ ProvideDefinition("a")
    \/ ProvideDocumentSymbols("a")
    \/ Return
SpecOutline == InitOutline /\ [][NextOutline]_vars

\* The scope detector on every short text.
InitScope == \E lines \in ScopeTexts : Opened(lines)
NextScope ==
    \/ ProvideDocumentSymbols("a")
    \/ Return
SpecScope == InitScope /\ [][NextScope]_vars

\* The documents of the editor: opened, edited, closed, reopened and queried.
InitCache ==
    /\ docs = [d \in Docs |-> Closed]
    /\ documentCache = [d \in Docs |-> None]
    /\ last = Idle
NextCache ==
    \/ \E d \in Docs : \E lines \in CacheTexts : Open(d, lines)
    \/ \E d \in Docs : \E lines \in CacheTexts : Change(d, lines)
    \/ \E d \in Docs : Close(d)
    \/ \E d \in Docs : ProvideDefinition(d)
    \/ \E d \in Docs : ProvideReferences(d)
    \/ \E d \in Docs : ProvideDocumentSymbols(d)
    \/ Deactivate
    \/ Return
SpecCache == InitCache /\ [][NextCache]_vars

\* One document on any of the texts, queried by the three providers that
\* resolve a symbol.
ChainTexts == LabelTexts \cup OutlineTexts
InitChain == \E lines \in ChainTexts : Opened(lines)
NextChain ==
    \/ ProvideDefinition("a")
    \/ ProvideHover("a")
    \/ ProvideReferences("a")
    \/ Return
SpecChain == InitChain /\ [][NextChain]_vars

\* One document on any of the texts with repeated names, parenthesized
\* attributes and quoted labels, queried by the providers.
InitScan == \E lines \in ScanTexts : Opened(lines)
NextScan ==
    \/ ProvideDefinition("a")
    \/ ProvideReferences("a")
    \/ ProvideDocumentSymbols("a")
    \/ Return
SpecScan == InitScan /\ [][NextScan]_vars

\* The documents of the editor, opened, edited, closed and reopened, with
\* the index of a document built twice in a row.
InitTwice == InitCache
NextTwice ==
    \/ \E d \in Docs : \E lines \in CacheTexts : Open(d, lines)
    \/ \E d \in Docs : \E lines \in CacheTexts : Change(d, lines)
    \/ \E d \in Docs : Close(d)
    \/ \E d \in Docs : ProvideDocumentSymbols(d)
    \/ \E d \in Docs : \E cleared \in BOOLEAN : ParseTwice(d, cleared)
    \/ Return
SpecTwice == InitTwice /\ [][NextTwice]_vars

\* parseDocument and the two cache operations as the module exports them:
\* called with any snapshot of a document, whatever was cached before.
InitSnapshot == InitCache
NextSnapshot ==
    \/ \E d \in Docs : \E version \in 1..MaxVersion : \E lines \in CacheTexts :
          ParseSnapshot(d, version, lines)
    \/ \E d \in Docs : ClearCache(d)
    \/ ClearAllCache
    \/ Return
SpecSnapshot == InitSnapshot /\ [][NextSnapshot]_vars

-----------------------------------------------------------------------------
(* What the last call was made on *)

LastLines == docs[last.doc].lines
LastScopes == last.parsed.functionScopes
LastDefinitions == last.parsed.definitions
\* what the position resolver reports at the position of the last call
LastSymbol == getSymbolAtPosition(last.parsed, LastLines, last.line, last.col)
\* what the definition provider's chain finds for it
LastDefinition ==
    findDefinition(LastDefinitions, LastSymbol.kind, LastSymbol.name,
                   LastSymbol.functionName)

Contains(seq, x) == \E i \in 1..Len(seq) : seq[i] = x

\* the `label %L` occurrences of function F in the code of a text, each as
\* <<line index, token index>>, and the span of the `%L` token of one
LabelSites(lines, functionScopes, F, L) ==
    {site \in UNION {{<<j, m>> : m \in 1..Len(CodePart(lines[j]))} :
                       j \in 1..Len(lines)} :
        /\ ~IsBlankOrComment(lines[site[1]])
        /\ getFunctionAtPosition(functionScopes, site[1] - 1) = F
        /\ LabelKeywordIdx(CodePart(lines[site[1]]), site[2]) # 0
        /\ CodePart(lines[site[1]])[site[2]].t = L.t}
SiteSpan(lines, site) ==
    Range(site[1] - 1, ColOf(lines[site[1]], site[2]), site[1] - 1,
          ColOf(lines[site[1]], site[2]) + Width(lines[site[1]][site[2]]))

\* line j of the text is a label definition line `L:` of function F
LabelDefinedAt(lines, functionScopes, j, F, L) ==
    /\ LabelLine(lines[j])
    /\ TokName(lines[j][1]) = L
    /\ getFunctionAtPosition(functionScopes, j - 1) = F

\* The last call was made at the `%L` token of a `label %L` of a function F
\* that holds a label definition line `L:` on an earlier line.
AtLabelUse ==
    /\ LastSymbol # None
    /\ LastSymbol.kind = LocalValue
    /\ LastSymbol.functionName # NoFn
    /\ \E site \in LabelSites(LastLines, LastScopes, LastSymbol.functionName,
                              Nm("", LastSymbol.name.t)) :
          /\ site[1] = last.line + 1
          /\ SiteSpan(LastLines, site) = LastSymbol.range
          /\ \E j \in 1..(site[1] - 1) :
                LabelDefinedAt(LastLines, LastScopes, j, LastSymbol.functionName,
                               Nm("", LastSymbol.name.t))

\* The last call was made on the name of a label definition line of a
\* function.
AtLabelDefinition ==
    /\ LastSymbol # None
    /\ LastSymbol.kind = Label
    /\ LastSymbol.functionName # NoFn
    /\ LabelLine(LastLines[last.line + 1])

\* the label the last call is about
LastLabel ==
    IF LastSymbol.kind = Label THEN LastSymbol.name ELSE Nm("", LastSymbol.name.t)
\* the definition registered for it in the function of the call
LastLabelDefinition ==
    MapGet(LastDefinitions, getSymbolKey(Label, LastLabel, LastSymbol.functionName))

\* The index holds neither a local value (or parameter) of the function nor
\* a named type under the name at the position.
NoRival ==
    /\ ~MapHas(LastDefinitions,
               getSymbolKey(LocalValue, LastSymbol.name, LastSymbol.functionName))
    /\ ~MapHas(LastDefinitions, getSymbolKey(NamedType, LastSymbol.name, NoFn))

YieldsLabel ==
    /\ LastLabelDefinition # None
    /\ LastLabelDefinition.kind = Label
    /\ LastDefinition = LastLabelDefinition
    /\ last.result = Location(LastLabelDefinition.selectionRange)

-----------------------------------------------------------------------------
(* C1 *)

\* C1, as amended: in a function F with a label definition line `L:` and a
\* later `br label %L`, go-to-definition at the `%L` token yields the Label
\* definition registered for L in F, provided the index holds no local value
\* `%L` of F and no named type `%L` (both come earlier in the chain).
C1_LabelResolution ==
    (last.op = "definition" /\ AtLabelUse /\ NoRival) => YieldsLabel

\* C1: such a call was made and answered with the label's definition.
C1_Witness ==
    last.op = "definition" /\ AtLabelUse /\ NoRival /\ YieldsLabel

\* C1 as stated, for every function with `L:` and a later `br label %L`:
\* resolving the `%L` occurrence yields the Label definition of L in F.
C1_AsStated ==
    (last.op = "definition" /\ AtLabelUse) => YieldsLabel

-----------------------------------------------------------------------------
(* C2 *)

\* the list returned holds the label definition's selection span and the
\* span of every `label %L` occurrence of the function, and no location of
\* a line outside the function
ReturnsLabelReferences ==
    /\ LastLabelDefinition # None
    /\ Contains(last.result, Location(LastLabelDefinition.selectionRange))
    /\ \A site \in LabelSites(LastLines, LastScopes, LastSymbol.functionName,
                              LastLabel) :
          Contains(last.result, Location(SiteSpan(LastLines, site)))
    /\ \A i \in 1..Len(last.result) :
          getFunctionAtPosition(LastScopes, last.result[i].sl)
              = LastSymbol.functionName

\* C2, as amended: find-references with includeDeclaration on a label of F,
\* from its definition line or from the `%L` token of a `br label %L` (then
\* provided the index holds no local value `%L` of F and no named type `%L`),
\* returns a list that holds the definition's selection span and the `%L`
\* span of every `label %L` occurrence in F, and no location outside F.
C2_LabelReferences ==
    (/\ last.op = "references"
     /\ last.includeDeclaration
     /\ (AtLabelDefinition \/ (AtLabelUse /\ NoRival)))
    => ReturnsLabelReferences

\* C2: such a call was made from a `%L` token, on a text in which another
\* function branches to a label of the same name.
C2_Witness ==
    /\ last.op = "references"
    /\ last.includeDeclaration
    /\ AtLabelUse /\ NoRival
    /\ ReturnsLabelReferences
    /\ \E i \in 1..Len(LastScopes) :
          /\ LastScopes[i].name # LastSymbol.functionName
          /\ LabelSites(LastLines, LastScopes, LastScopes[i].name, LastLabel) # {}

\* C2 as stated, for every label reached from its definition or from a
\* `br label %L`: the definition's span, every `label %L` occurrence of F
\* and no occurrence of another function.
C2_AsStated ==
    (/\ last.op = "references"
     /\ last.includeDeclaration
     /\ (AtLabelDefinition \/ AtLabelUse))
    => ReturnsLabelReferences

-----------------------------------------------------------------------------
(* C3 *)

\* C3 as stated: find-references on a label definition `L:` without the
\* declaration returns as many entries as the enclosing function has
\* `label %L` occurrences (two for `for.cond:` of @main).
C3_ExactCount ==
    (last.op = "references" /\ ~last.includeDeclaration /\ AtLabelDefinition)
    => Len(last.result)
         = Cardinality(LabelSites(LastLines, LastScopes, LastSymbol.functionName,
                                  LastLabel))

-----------------------------------------------------------------------------
(* C4 *)

\* C4 as stated: the outline of the module of one function, one global
\* variable, one named type, !llvm.module.flags and !0 has exactly four
\* entries: the function, the global, the type and the named metadata.
C4_OutlineScenario ==
    (last.op = "symbols" /\ LastLines = OutlineSeed)
    => /\ Len(last.result) = 4
       /\ {<<last.result[i].name, last.result[i].kind>> : i \in 1..Len(last.result)}
            = {<<Nm("@", "main"), "Function">>, <<Nm("@", "g"), "Variable">>,
               <<Nm("%", "T"), "Struct">>,
               <<Nm("!", "llvm.module.flags"), "Property">>}

-----------------------------------------------------------------------------
(* C5 *)

\* the outline lists the definition, as an entry of the kind
Listed(def, kind) ==
    \E i \in 1..Len(last.result) :
        /\ last.result[i].name = def.name
        /\ last.result[i].kind = kind
        /\ last.result[i].selectionRange = def.selectionRange

\* C5 as stated: the outline lists a GlobalValue definition `@n` if and only
\* if the index holds no Function key for `@n`, and lists no LocalValue or
\* Label definition.
C5_GlobalsListed ==
    last.op = "symbols"
    => \A i \in 1..Len(LastDefinitions) :
          /\ LastDefinitions[i][2].kind = GlobalValue
             => (Listed(LastDefinitions[i][2], "Variable")
                 <=> ~MapHas(LastDefinitions,
                        getSymbolKey(Function, LastDefinitions[i][2].name, NoFn)))
          /\ LastDefinitions[i][2].kind \in {LocalValue, Label}
             => \A k \in 1..Len(last.result) :
                   \/ last.result[k].name # LastDefinitions[i][2].name
                   \/ last.result[k].selectionRange
                        # LastDefinitions[i][2].selectionRange

-----------------------------------------------------------------------------
(* C6 *)

\* a `define ... @f(` header line, and the name it gives
IsHeader(line) == ~IsBlankOrComment(line) /\ HeaderNameIdx(line, "define") # 0
HeaderName(line) == Nm("@", line[HeaderNameIdx(line, "define")].t)

\* the brace depth of the code of lines h..j of a text, and whether a brace
\* was opened on them
RECURSIVE TextDepth(_, _, _)
TextDepth(lines, h, j) ==
    IF j < h THEN 0
    ELSE TextDepth(lines, h, j - 1)
         + (IF IsBlankOrComment(lines[j]) THEN 0 ELSE BraceDelta(lines[j], 1))
BodyOpen(lines, h, j) ==
    \E k \in h..j : ~IsBlankOrComment(lines[k])
                    /\ \E i \in 1..Len(lines[k]) : IsP(lines[k][i], "{")

\* the braces that follow header line h are balanced and e is the line on
\* which their depth first returns to zero
ClosesAt(lines, h, e) ==
    /\ BodyOpen(lines, h, e)
    /\ TextDepth(lines, h, e) = 0
    /\ \A j \in h..(e - 1) :
          /\ TextDepth(lines, h, j) >= 0
          /\ ~(BodyOpen(lines, h, j) /\ TextDepth(lines, h, j) = 0)

\* every header before line h has its braces closed before line h
TopLevel(lines, h) ==
    \A g \in 1..(h - 1) :
        IsHeader(lines[g]) => \E e \in g..(h - 1) : ClosesAt(lines, g, e)

\* C6 as stated, for the headers outside every earlier function: a header
\* `define ... @f(` followed by balanced braces gives exactly one
\* FunctionScope named @f that starts on the header line, and it ends on the
\* line on which the brace depth first returns to zero.
C6_ScopePerHeader ==
    last.op = "symbols"
    => \A h \in 1..Len(LastLines) : \A e \in h..Len(LastLines) :
          (IsHeader(LastLines[h]) /\ TopLevel(LastLines, h)
             /\ ClosesAt(LastLines, h, e))
          => /\ Cardinality({i \in 1..Len(LastScopes) :
                    /\ LastScopes[i].name = HeaderName(LastLines[h])
                    /\ LastScopes[i].startLine = h - 1}) = 1
             /\ \A i \in 1..Len(LastScopes) :
                    (/\ LastScopes[i].name = HeaderName(LastLines[h])
                     /\ LastScopes[i].startLine = h - 1)
                    => LastScopes[i].endLine = e - 1

-----------------------------------------------------------------------------
(* C7 *)

-----------------------------------------------------------------------------
(* C8 *)

\* a global variable or alias `@n` is defined on a line after line number l
LaterGlobal(lines, name, l) ==
    \E j \in (l + 2)..Len(lines) :
        /\ ~IsBlankOrComment(lines[j])
        /\ \/ GlobalIdx(lines[j]) # 0
              /\ TokName(lines[j][GlobalIdx(lines[j])]) = name
           \/ AliasIdx(lines[j]) # 0
              /\ TokName(lines[j][AliasIdx(lines[j])]) = name

\* the definitions under the Function and the GlobalValue key of a name
FunctionOf(name) == MapGet(LastDefinitions, getSymbolKey(Function, name, NoFn))
GlobalOf(name) == MapGet(LastDefinitions, getSymbolKey(GlobalValue, name, NoFn))
FunctionNames ==
    {LastDefinitions[i][1][3] : i \in {k \in 1..Len(LastDefinitions) :
                                         LastDefinitions[k][1][1] = Function}}

\* C8, as amended: in every index parseDocument returns, a name with a
\* Function key has a GlobalValue key too; the two map to the identical
\* definition unless a global variable or alias of the name is defined on a
\* later line than the function, and then the GlobalValue key maps to that
\* later definition.
C8_DualRegistration ==
    last.op # "idle"
    => \A name \in FunctionNames :
          /\ GlobalOf(name) # None
          /\ (GlobalOf(name) = FunctionOf(name))
               <=> ~LaterGlobal(LastLines, name, FunctionOf(name).range.sl)
          /\ GlobalOf(name) # FunctionOf(name)
               => /\ GlobalOf(name).kind = GlobalValue
                  /\ GlobalOf(name).range.sl > FunctionOf(name).range.sl

\* C8: an index was returned in which one function's two keys map to the
\* one definition and another text's later global has replaced it.
C8_Witness ==
    /\ last.op # "idle"
    /\ FunctionNames # {}
    /\ \E name \in FunctionNames :
          /\ GlobalOf(name) # None
          /\ GlobalOf(name) # FunctionOf(name)
          /\ LaterGlobal(LastLines, name, FunctionOf(name).range.sl)

\* C8 as stated: whenever the Function key of `@n` is present, the
\* GlobalValue key of `@n` is present and maps to the identical definition.
C8_AsStated ==
    last.op # "idle"
    => \A name \in FunctionNames :
          GlobalOf(name) # None /\ GlobalOf(name) = FunctionOf(name)

-----------------------------------------------------------------------------
(* C9 *)

\* The last call was go-to-definition at an occurrence `@n` (a GlobalValue)
\* on a text with a `define ... @n(` line.
AtDefinedFunctionName ==
    /\ last.op = "definition"
    /\ LastSymbol # None
    /\ LastSymbol.kind = GlobalValue
    /\ \E j \in 1..Len(LastLines) :
          IsHeader(LastLines[j]) /\ HeaderName(LastLines[j]) = LastSymbol.name

\* C9, as amended: resolving an occurrence `@main` of kind GlobalValue on a
\* module with `define i32 @main(...)` succeeds at the chain's own-key step,
\* with the definition under the (GlobalValue, @main) key; that is the
\* definition under the (Function, @main) key unless a global variable or
\* alias @main is defined on a later line.
C9_DualLookup ==
    AtDefinedFunctionName
    => /\ GlobalOf(LastSymbol.name) # None
       /\ LastDefinition = GlobalOf(LastSymbol.name)
       /\ last.result = Location(GlobalOf(LastSymbol.name).selectionRange)
       /\ FunctionOf(LastSymbol.name) # None
       /\ ~LaterGlobal(LastLines, LastSymbol.name,
                       FunctionOf(LastSymbol.name).range.sl)
          => LastDefinition = FunctionOf(LastSymbol.name)

\* C9: such a call was made at `@main` and answered with the definition the
\* Function key holds.
C9_Witness ==
    /\ AtDefinedFunctionName
    /\ LastSymbol.name = Nm("@", "main")
    /\ LastDefinition = FunctionOf(LastSymbol.name)
    /\ last.result = Location(FunctionOf(LastSymbol.name).selectionRange)

\* C9 as stated: the resolution succeeds at the Function-fallback step (the
\* step after the failed lookup under the name's own key) and returns the
\* definition under the Function key.
C9_AsStated ==
    AtDefinedFunctionName
    => /\ GlobalOf(LastSymbol.name) = None
       /\ LastDefinition # None
       /\ LastDefinition = FunctionOf(LastSymbol.name)

-----------------------------------------------------------------------------
(* C10 *)

\* C10: whatever the documents were opened, edited, closed and reopened
\* with, the index parseDocument returns to a call is the index a fresh
\* build of the document's text at that moment gives.
C10_CacheFreshness ==
    last.op # "idle" => last.parsed = BuildIndex(LastLines)

\* C10: a call on an edited document was answered from the cache.
C10_Witness ==
    /\ last.op # "idle"
    /\ last.hit
    /\ docs[last.doc].version > 1
    /\ last.parsed = BuildIndex(LastLines)

-----------------------------------------------------------------------------
(* C11 *)

\* the entry the last parseDocument call found for its document
FoundEntry == last.before[last.doc]
FoundSameVersion ==
    FoundEntry # None /\ FoundEntry.version = docs[last.doc].version

\* C11: parseDocument on a document whose cached entry has the document's
\* version returns the cached index without a rebuild and leaves the cache as
\* it was; with an entry of another version, or none, it returns the index
\* built from the full text and replaces the document's entry by (version,
\* that index), leaving the entries of the other documents unchanged.
C11_SnapshotCache ==
    last.op = "parse"
    => IF FoundSameVersion
       THEN /\ last.hit
            /\ last.parsed = FoundEntry.parsed
            /\ documentCache = last.before
       ELSE /\ ~last.hit
            /\ last.parsed = BuildIndex(LastLines)
            /\ documentCache[last.doc]
                 = CacheEntry(docs[last.doc].version, last.parsed)
            /\ \A e \in Docs \ {last.doc} : documentCache[e] = last.before[e]

\* C11: a call found an entry of another version, built for another text,
\* while the other document had an entry too, and replaced the first alone.
C11_Witness ==
    /\ last.op = "parse"
    /\ FoundEntry # None
    /\ FoundEntry.version # docs[last.doc].version
    /\ FoundEntry.parsed # last.parsed
    /\ ~last.hit
    /\ documentCache[last.doc] = CacheEntry(docs[last.doc].version, last.parsed)
    /\ \E e \in Docs \ {last.doc} :
          last.before[e] # None /\ documentCache[e] = last.before[e]

-----------------------------------------------------------------------------
(* C12 *)

\* the keys of the fallback chain for an occurrence, in order
ChainKeys(kind, name, functionName) ==
    (IF kind \in {LocalValue, Label} /\ functionName # NoFn
     THEN << <<kind, functionName, name>> >> ELSE <<>>)
    \o << <<kind, NoFn, name>> >>
    \o (IF kind = LocalValue /\ name.s = "%"
        THEN << <<NamedType, NoFn, name>> >>
             \o (IF functionName # NoFn
                 THEN << <<Label, functionName, Nm("", name.t)>> >> ELSE <<>>)
        ELSE <<>>)
    \o (IF kind = GlobalValue THEN << <<Function, NoFn, name>> >> ELSE <<>>)

\* the definition under the first key of the sequence that the index holds
FirstHit(definitions, keys) ==
    IF First({i \in 1..Len(keys) : MapHas(definitions, keys[i])}) = 0 THEN None
    ELSE MapGet(definitions,
                keys[First({i \in 1..Len(keys) : MapHas(definitions, keys[i])})])

\* what the chain gives for the occurrence at the position of the last call
LastFirstHit ==
    FirstHit(LastDefinitions,
             ChainKeys(LastSymbol.kind, LastSymbol.name, LastSymbol.functionName))

\* C12: for the occurrence at the position of a call, the definition
\* provider, the hover provider and the reference provider each find the
\* definition under the first key the index holds among the scoped key (for
\* a LocalValue or Label in a function), the unscoped key, for a LocalValue
\* `%n` the NamedType key and then the Label key of `n` in the function, and
\* for a GlobalValue the Function key; none when the index holds none of
\* them.  The provider called returns the location or the hover of that one.
C12_FallbackChain ==
    (last.op \in {"definition", "hover", "references"} /\ LastSymbol # None)
    => /\ LastDefinition = LastFirstHit
       /\ hoverFindDefinition(LastDefinitions, LastSymbol.kind, LastSymbol.name,
                              LastSymbol.functionName) = LastFirstHit
       /\ resolveSymbol(LastDefinitions, LastSymbol.kind, LastSymbol.name,
                        LastSymbol.functionName).definition = LastFirstHit
       /\ last.op = "definition" => last.result = DefinitionLocation(LastFirstHit)
       /\ last.op = "hover" => last.result = HoverAt(LastFirstHit, LastSymbol)
       /\ (last.op = "references" /\ last.includeDeclaration
              /\ LastFirstHit # None)
            => /\ Len(last.result) >= 1
               /\ last.result[1] = Location(LastFirstHit.selectionRange)

\* C12: a hover at a `%n` in a function was answered with a named type of
\* the module although the function has a label `n`: the third step hit
\* before the fourth.
C12_Witness ==
    /\ last.op = "hover"
    /\ LastSymbol # None
    /\ LastSymbol.kind = LocalValue
    /\ LastSymbol.functionName # NoFn
    /\ MapHas(LastDefinitions,
              <<Label, LastSymbol.functionName, Nm("", LastSymbol.name.t)>>)
    /\ last.result # None
    /\ last.result.kindName = "Type Definition"
    /\ LastFirstHit.kind = NamedType

-----------------------------------------------------------------------------
(* C13 *)

\* the line defines a metadata node, `!name = ...` or `!0 = ...`: the index
\* of the defined token, 0 when the line is no such line
MetadataDefIdx(line) == AssignIdx(line, "!", {"id", "mid", "num"})

\* the Metadata references of the index that start at token i of line j
MetadataRefsAt(references, lines, j, i) ==
    {k \in 1..Len(references) :
        /\ references[k].kind = Metadata
        /\ references[k].range.sl = j - 1
        /\ references[k].range.sc = ColOf(lines[j], i)}

\* C13 as stated: on a line that defines a metadata node the scan emits no
\* Metadata reference at the defined token's own position, and it emits one
\* at every other metadata token of the line.
C13_SelfExclusion ==
    last.op # "idle"
    => \A j \in 1..Len(LastLines) :
          (~IsBlankOrComment(LastLines[j]) /\ MetadataDefIdx(LastLines[j]) # 0)
          => /\ MetadataRefsAt(last.parsed.references, LastLines, j,
                               MetadataDefIdx(LastLines[j])) = {}
             /\ \A i \in 1..Len(CodePart(LastLines[j])) :
                   (/\ i # MetadataDefIdx(LastLines[j])
                    /\ LastLines[j][i].s = "!"
                    /\ LastLines[j][i].b \in {"id", "mid", "num"})
                   => MetadataRefsAt(last.parsed.references, LastLines, j, i) # {}

-----------------------------------------------------------------------------
(* C14 *)

\* the keys of a map, and the greatest element of a set of indexes
KeysOf(m) == {m[i][1] : i \in 1..Len(m)}
Greatest(S) == CHOOSE i \in S : \A j \in S : j <= i

\* what line j of the text of the last call registers, on its own
LineRegs(j) ==
    IF IsBlankOrComment(LastLines[j]) THEN <<>>
    ELSE parseDefinitions(LastLines[j], j - 1, <<>>,
                          getFunctionAtPosition(LastScopes, j - 1), LastScopes)
LinesWith(key) == {j \in 1..Len(LastLines) : key \in KeysOf(LineRegs(j))}

\* the `%name` tokens of the parameter group of a header line
ParamTokens(line) ==
    {i \in (ParamsGroup(line)[1] + 1)..(ParamsGroup(line)[2] - 1) :
        line[i].s = "%" /\ AnyBody(line[i])}

\* C14: the index returned for a text holds every key that a line registers and maps it to the
\* registration made last: that of the last line that registers the key
\* and, on one line, that of the later pattern (the last parameter of a
\* name; the alias pattern after the global-variable pattern).
C14_LastWriteWins ==
    last.op = "symbols"
    => /\ KeysOf(LastDefinitions)
            = UNION {KeysOf(LineRegs(j)) : j \in 1..Len(LastLines)}
       /\ \A key \in KeysOf(LastDefinitions) :
             MapGet(LastDefinitions, key)
               = MapGet(LineRegs(Greatest(LinesWith(key))), key)
       /\ \A j \in 1..Len(LastLines) :
             /\ IsHeader(LastLines[j])
                => \A i \in ParamTokens(LastLines[j]) :
                      MapGet(LineRegs(j),
                             <<LocalValue, HeaderName(LastLines[j]),
                               TokName(LastLines[j][i])>>).selectionRange.sc
                        = ColOf(LastLines[j],
                            Greatest({k \in ParamTokens(LastLines[j]) :
                               TokName(LastLines[j][k]) = TokName(LastLines[j][i])}))
             /\ (~IsBlankOrComment(LastLines[j])
                   /\ GlobalIdx(LastLines[j]) # 0 /\ AliasIdx(LastLines[j]) # 0)
                => MapGet(LineRegs(j),
                          <<GlobalValue, NoFn,
                            TokName(LastLines[j][GlobalIdx(LastLines[j])])>>).detail
                     = Detail("alias", j - 1)

\* C14: an index was returned for a text in which two lines register one
\* key, a header names a parameter twice and a line matches both the
\* global-variable and the alias pattern.
C14_Witness ==
    /\ last.op = "symbols"
    /\ \E key \in KeysOf(LastDefinitions) : Cardinality(LinesWith(key)) >= 2
    /\ \E j \in 1..Len(LastLines) :
          /\ IsHeader(LastLines[j])
          /\ \E i, k \in ParamTokens(LastLines[j]) :
                i < k /\ TokName(LastLines[j][i]) = TokName(LastLines[j][k])
    /\ \E j \in 1..Len(LastLines) :
          GlobalIdx(LastLines[j]) # 0 /\ AliasIdx(LastLines[j]) # 0

-----------------------------------------------------------------------------
(* C15 *)

\* the line holds no sigil and no colon: no pattern of the scan matches it
PlainLine(line) ==
    \A i \in 1..Len(line) : line[i].s = "" /\ ~IsP(line[i], ":")

\* a header whose braces are not closed by the end of the text
OpenAtEnd(lines, h) ==
    /\ IsHeader(lines[h])
    /\ TopLevel(lines, h)
    /\ \A e \in h..Len(lines) : ~ClosesAt(lines, h, e)
    /\ \A e \in h..Len(lines) :
          IsBlankOrComment(lines[e]) \/ TextDepth(lines, h, e) # 0

\* C15: whatever the lines are (headers without braces, braces without a
\* header, a function still open at the end of the text), parseDocument
\* returns an index: its scopes lie inside the text, one after the other,
\* its definitions and references lie on lines of the text, and a line that
\* no pattern matches has no definition and no reference on it.
C15_ScanTotal ==
    last.op # "idle"
    => /\ DOMAIN last.parsed = {"definitions", "references", "functionScopes"}
       /\ \A i \in 1..Len(LastScopes) :
             /\ 0 <= LastScopes[i].startLine
             /\ LastScopes[i].startLine <= LastScopes[i].endLine
             /\ LastScopes[i].endLine < Len(LastLines)
             /\ i > 1 => LastScopes[i - 1].endLine < LastScopes[i].startLine
       /\ \A i \in 1..Len(LastDefinitions) :
             /\ LastDefinitions[i][2].selectionRange.sl \in 0..(Len(LastLines) - 1)
             /\ ~PlainLine(LastLines[LastDefinitions[i][2].selectionRange.sl + 1])
       /\ \A i \in 1..Len(last.parsed.references) :
             /\ last.parsed.references[i].range.sl \in 0..(Len(LastLines) - 1)
             /\ ~PlainLine(LastLines[last.parsed.references[i].range.sl + 1])

\* C15: an index came back for a text whose last function is still open at
\* the end and which holds a line that no pattern matches; the open
\* function has no scope.
C15_Witness ==
    /\ last.op # "idle"
    /\ \E h \in 1..Len(LastLines) :
          /\ OpenAtEnd(LastLines, h)
          /\ h < Len(LastLines)
          /\ \A i \in 1..Len(LastScopes) : LastScopes[i].startLine # h - 1
    /\ \E j \in 1..Len(LastLines) :
          PlainLine(LastLines[j]) /\ ~IsBlankOrComment(LastLines[j])
    /\ Len(LastDefinitions) > 0

-----------------------------------------------------------------------------
(* C16 *)

-----------------------------------------------------------------------------
(* C17 *)

\* the text with its blank and full-line comment lines emptied
Blanked(lines) ==
    [j \in 1..Len(lines) |-> IF IsBlankOrComment(lines[j]) THEN <<>> ELSE lines[j]]

\* a full-line comment with a brace on it
BraceComment(line) ==
    IsBlankOrComment(line) /\ \E i \in 1..Len(line) : IsP(line[i], "{") \/ IsP(line[i], "}")

\* the brace depth of lines h..j of a text, every line counted
RECURSIVE DepthOfAll(_, _, _)
DepthOfAll(lines, h, j) ==
    IF j < h THEN 0 ELSE DepthOfAll(lines, h, j - 1) + BraceDelta(lines[j], 1)

\* C17, as amended: the scope detector skips blank lines and full-line
\* comment lines altogether, for the header test and for the brace count:
\* the scopes of a text are those of the text with these lines emptied, and
\* no scope ends on such a line.
C17_CommentLinesSkipped ==
    last.op # "idle"
    => /\ LastScopes = FirstPass(Blanked(LastLines))
       /\ \A i \in 1..Len(LastScopes) :
             ~IsBlankOrComment(LastLines[LastScopes[i].endLine + 1])

\* C17: scopes came back for a text with a comment line that holds a brace
\* inside an open function, and the function's scope ends further down.
C17_Witness ==
    /\ last.op # "idle"
    /\ \E i \in 1..Len(LastScopes) : \E j \in 1..Len(LastLines) :
          /\ BraceComment(LastLines[j])
          /\ LastScopes[i].startLine < j - 1
          /\ j - 1 < LastScopes[i].endLine

\* C17 as stated, for a header on the first line of the text that opens a
\* brace: braces on comment lines change the depth, so the scope ends on the
\* line on which the depth over all lines first returns to zero.
C17_AsStated ==
    last.op # "idle"
    => \A e \in 2..Len(LastLines) :
          (/\ IsHeader(LastLines[1])
           /\ DepthOfAll(LastLines, 1, e) = 0
           /\ \A j \in 1..(e - 1) : DepthOfAll(LastLines, 1, j) > 0)
          => \E i \in 1..Len(LastScopes) :
                LastScopes[i].startLine = 0 /\ LastScopes[i].endLine = e - 1

-----------------------------------------------------------------------------
(* C18 *)

\* the parenthesis depth of tokens o..i of a line
RECURSIVE ParenDepth(_, _, _)
ParenDepth(line, o, i) ==
    IF i < o THEN 0
    ELSE ParenDepth(line, o, i - 1)
         + (IF IsP(line[i], "(") THEN 1 ELSE IF IsP(line[i], ")") THEN -1 ELSE 0)

\* the parenthesis that follows the name of a header line, and the one that
\* closes it (0 when it stays open)
ListOpen(line) == SkipWs(line, HeaderNameIdx(line, "define") + 1)
ListClose(line) ==
    First({c \in ListOpen(line)..Len(line) : ParenDepth(line, ListOpen(line), c) = 0})

\* the `%name` tokens of the parameter list of a header line
ListParams(line) ==
    {i \in (ListOpen(line) + 1)..(ListClose(line) - 1) :
        line[i].s = "%" /\ AnyBody(line[i])}

\* a header line with a parenthesis other than the two of its parameter list
HasAttributeGroup(line) ==
    \E i \in 1..Len(line) :
        /\ IsP(line[i], "(") \/ IsP(line[i], ")")
        /\ i \notin {ListOpen(line), ListClose(line)}

\* C18 as stated: every `%name` of the parameter list of a `define` header
\* of @f is in the index as a LocalValue definition under the key scoped to
\* @f, also when the header has a parenthesized attribute.
C18_ParametersRegistered ==
    last.op = "symbols"
    => \A j \in 1..Len(LastLines) :
          IsHeader(LastLines[j])
          => \A i \in ListParams(LastLines[j]) :
                /\ MapHas(LastDefinitions,
                          <<LocalValue, HeaderName(LastLines[j]), TokName(LastLines[j][i])>>)
                /\ MapGet(LastDefinitions,
                          <<LocalValue, HeaderName(LastLines[j]),
                            TokName(LastLines[j][i])>>).kind = LocalValue

\* C18, for headers whose only parentheses are those of the parameter list:
\* every `%name` of the list is registered.
C18_PlainHeaders ==
    last.op = "symbols"
    => \A j \in 1..Len(LastLines) :
          (IsHeader(LastLines[j]) /\ ~HasAttributeGroup(LastLines[j]))
          => \A i \in ListParams(LastLines[j]) :
                MapHas(LastDefinitions,
                       <<LocalValue, HeaderName(LastLines[j]), TokName(LastLines[j][i])>>)

\* C18: an index came back for a text with a plain header that has a
\* parameter.
C18_PlainWitness ==
    /\ last.op = "symbols"
    /\ \E j \in 1..Len(LastLines) :
          /\ IsHeader(LastLines[j]) /\ ~HasAttributeGroup(LastLines[j])
          /\ ListParams(LastLines[j]) # {}

-----------------------------------------------------------------------------
(* C19 *)

\* the Function definition that the header on line j (1-based) registers
HeaderDef(j) == MapGet(LineRegs(j), <<Function, NoFn, HeaderName(LastLines[j])>>)

\* the end line of the scope that the header on line h (0-based) opened, or
\* h when it opened none
OwnScopeEnd(functionScopes, h) ==
    IF \E i \in 1..Len(functionScopes) : functionScopes[i].startLine = h
    THEN functionScopes[CHOOSE i \in 1..Len(functionScopes) :
                            functionScopes[i].startLine = h].endLine
    ELSE h

\* C19 as stated: the Function definition registered from the header on
\* line h has a range from line h to the end line of the scope which that
\* header opened (line h when it opened none), so it never ends before h,
\* also when two headers carry the same name.
C19_FunctionRange ==
    last.op # "idle"
    => \A j \in 1..Len(LastLines) :
          IsHeader(LastLines[j])
          => /\ HeaderDef(j).range.sl = j - 1
             /\ HeaderDef(j).range.el = OwnScopeEnd(LastScopes, j - 1)
             /\ HeaderDef(j).range.el >= j - 1

\* C19, for a header whose name no other header of the text carries.
C19_UniqueNames ==
    last.op # "idle"
    => \A j \in 1..Len(LastLines) :
          (/\ IsHeader(LastLines[j])
           /\ \A k \in 1..Len(LastLines) :
                 (k # j /\ IsHeader(LastLines[k]))
                 => HeaderName(LastLines[k]) # HeaderName(LastLines[j]))
          => /\ HeaderDef(j).range.sl = j - 1
             /\ HeaderDef(j).range.el = OwnScopeEnd(LastScopes, j - 1)

\* C19: a header with a name of its own opened a scope that ends further
\* down.
C19_UniqueWitness ==
    /\ last.op # "idle"
    /\ \E j \in 1..Len(LastLines) :
          /\ IsHeader(LastLines[j])
          /\ \A k \in 1..Len(LastLines) :
                (k # j /\ IsHeader(LastLines[k]))
                => HeaderName(LastLines[k]) # HeaderName(LastLines[j])
          /\ OwnScopeEnd(LastScopes, j - 1) > j - 1

-----------------------------------------------------------------------------
(* C20 *)

\* the text of a line: its tokens one after the other
RECURSIVE LineText(_, _)
LineText(line, i) ==
    IF i > Len(line) THEN "" ELSE (line[i].s \o line[i].t) \o LineText(line, i + 1)

\* the text of a line over the columns of a range on that line
TextOver(line, range) ==
    IF range.sl = range.el /\ 0 <= range.sc /\ range.sc <= range.ec
       /\ range.ec <= Len(LineText(line, 1))
    THEN SubSeq(LineText(line, 1), range.sc + 1, range.ec)
    ELSE "<outside>"

\* the span of a reference is that of its identifier
ExactSpan(lines, ref) ==
    /\ TextOver(lines[ref.range.sl + 1], ref.range) = ref.name.s \o ref.name.t
    /\ ref.kind = Label
       => \E i \in 1..Len(lines[ref.range.sl + 1]) :
             /\ LabelKeywordIdx(CodePart(lines[ref.range.sl + 1]), i) # 0
             /\ ref.range.sc = ColOf(lines[ref.range.sl + 1], i) + 1

\* a Label reference whose name holds a `%`
PercentLabel(ref) == ref.kind = Label /\ LastPercentInBody(ref.name.t) >= 0

\* C20 as stated: every reference of the scan carries the exact column span
\* of its identifier: the text of the line over the span is the name of the
\* reference, the sigil included except for a Label reference, whose span
\* starts right after the `%` of `label %name`, quoted names included.
C20_ExactSpans ==
    last.op = "symbols"
    => \A k \in 1..Len(last.parsed.references) :
          ExactSpan(LastLines, last.parsed.references[k])

\* C20, for the references other than a Label reference whose name holds
\* a `%`.
C20_PlainSpans ==
    last.op = "symbols"
    => \A k \in 1..Len(last.parsed.references) :
          ~PercentLabel(last.parsed.references[k])
          => ExactSpan(LastLines, last.parsed.references[k])

\* C20: the scan returned a Label reference and a reference of another kind.
C20_PlainWitness ==
    /\ last.op = "symbols"
    /\ \E k \in 1..Len(last.parsed.references) :
          /\ last.parsed.references[k].kind = Label
          /\ ~PercentLabel(last.parsed.references[k])
    /\ \E k \in 1..Len(last.parsed.references) :
          last.parsed.references[k].kind = GlobalValue

-----------------------------------------------------------------------------
(* C21 *)

\* a list that holds no element twice
NoRepeat(list) ==
    \A i \in 1..Len(list) : \A j \in 1..Len(list) : list[i] = list[j] => i = j

\* what the occurrence under the cursor of the last call resolves to
LastResolved ==
    resolveSymbol(LastDefinitions, LastSymbol.kind, LastSymbol.name,
                  LastSymbol.functionName)

\* C21 as stated: the list of locations that provideReferences returns holds
\* no span twice, whatever the index, the kind of the occurrence (a
\* LocalValue `%L` that resolves to a Label included) and the value of
\* includeDeclaration.
C21_NoDuplicateSpans ==
    (last.op = "references" /\ LastSymbol # None) => NoRepeat(last.result)

\* C21, for an occurrence that is not a LocalValue resolved to a Label.
C21_NotLocalAsLabel ==
    (/\ last.op = "references" /\ LastSymbol # None
     /\ ~(LastSymbol.kind = LocalValue /\ LastResolved.actualKind = Label))
    => NoRepeat(last.result)

\* C21: references came back, the declaration among them, for a Label
\* occurrence with a definition and a reference elsewhere.
C21_PlainWitness ==
    /\ last.op = "references" /\ LastSymbol # None
    /\ last.includeDeclaration
    /\ LastSymbol.kind = Label
    /\ Len(last.result) >= 2

-----------------------------------------------------------------------------
(* C22 *)

\* the occurrence that the position resolver reports at the start of the
\* selection range of a definition
OccurrenceOf(def) ==
    getSymbolAtPosition(last.parsed, LastLines, def.selectionRange.sl,
                        def.selectionRange.sc)

\* the definition comes back from its own position
RoundTrip(def) ==
    /\ OccurrenceOf(def) # None
    /\ findDefinition(LastDefinitions, OccurrenceOf(def).kind, OccurrenceOf(def).name,
                      OccurrenceOf(def).functionName) = def

\* C22 as stated: for every definition stored in the index of a text, the
\* position resolver at the start of the definition's selection range
\* reports an occurrence that the definition provider resolves to that same
\* definition.
C22_RoundTrip ==
    last.op = "symbols"
    => \A i \in 1..Len(LastDefinitions) : RoundTrip(LastDefinitions[i][2])

\* the three ways in which a stored definition is out of reach of its own
\* position: a function whose GlobalValue key holds another definition, a
\* function-scoped definition on a line outside the scope of its function,
\* and a named type with a local value of its name in reach
Shadowed(def) ==
    \/ /\ def.kind = Function
       /\ MapGet(LastDefinitions, <<GlobalValue, NoFn, def.name>>) # def
    \/ /\ def.kind \in {LocalValue, Label}
       /\ getFunctionAtPosition(LastScopes, def.selectionRange.sl) # def.functionName
    \/ /\ def.kind = NamedType
       /\ \/ MapHas(LastDefinitions, <<LocalValue, NoFn, def.name>>)
          \/ MapHas(LastDefinitions,
                    <<LocalValue,
                      getFunctionAtPosition(LastScopes, def.selectionRange.sl),
                      def.name>>)

\* C22, for the definitions that nothing shadows.
C22_Unshadowed ==
    last.op = "symbols"
    => \A i \in 1..Len(LastDefinitions) :
          ~Shadowed(LastDefinitions[i][2]) => RoundTrip(LastDefinitions[i][2])

\* C22: an index came back with a function, a local value and a label that
\* nothing shadows.
C22_UnshadowedWitness ==
    /\ last.op = "symbols"
    /\ \A kind \in {Function, LocalValue, Label} :
          \E i \in 1..Len(LastDefinitions) :
             /\ LastDefinitions[i][2].kind = kind
             /\ ~Shadowed(LastDefinitions[i][2])

-----------------------------------------------------------------------------
(* C23 *)

\* the scopes of a list that hold a line
ScopesAt(functionScopes, lineNum) ==
    {i \in 1..Len(functionScopes) :
        functionScopes[i].startLine <= lineNum /\ lineNum <= functionScopes[i].endLine}

\* C23: the function scopes of the index of a text are well formed: each
\* starts on a line of the text and ends on that line or a later one, each
\* ends before the next one starts, so no two overlap, every line is in at
\* most one scope, and the enclosing function of a line is the name of that
\* one scope (none when no scope holds the line).
C23_ScopesWellFormed ==
    last.op # "idle"
    => /\ \A i \in 1..Len(LastScopes) :
             /\ 0 <= LastScopes[i].startLine
             /\ LastScopes[i].startLine <= LastScopes[i].endLine
             /\ LastScopes[i].endLine < Len(LastLines)
       /\ \A i \in 1..(Len(LastScopes) - 1) :
             LastScopes[i].endLine < LastScopes[i + 1].startLine
       /\ \A i \in 1..Len(LastScopes) : \A j \in 1..Len(LastScopes) :
             (i # j) => \A n \in LastScopes[i].startLine..LastScopes[i].endLine :
                          n \notin LastScopes[j].startLine..LastScopes[j].endLine
       /\ \A n \in 0..(Len(LastLines) - 1) :
             /\ Cardinality(ScopesAt(LastScopes, n)) <= 1
             /\ \A i \in ScopesAt(LastScopes, n) :
                   getFunctionAtPosition(LastScopes, n) = LastScopes[i].name
             /\ ScopesAt(LastScopes, n) = {}
                => getFunctionAtPosition(LastScopes, n) = NoFn

\* C23: the index of a text holds two scopes, one of them of more than one
\* line, and the text has a line outside both.
C23_Witness ==
    /\ last.op # "idle"
    /\ Len(LastScopes) >= 2
    /\ \E i \in 1..Len(LastScopes) : LastScopes[i].startLine < LastScopes[i].endLine
    /\ \E n \in 0..(Len(LastLines) - 1) : ScopesAt(LastScopes, n) = {}

====
